---- MODULE Spec2Model ----
(***************************************************************************)
(* A model of the gotoon TOON encoder (package gotoon).                    *)
(*                                                                         *)
(* Text is a sequence of one-character strings, so that quoting, escaping  *)
(* and joining are computed character by character as the Go code does.    *)
(* A normalized value is a tagged record:                                  *)
(*   [t |-> "null"], [t |-> "bool", b], [t |-> "num", n], [t |-> "str", s],*)
(*   [t |-> "arr", items], [t |-> "obj", entries]                          *)
(* An object keeps its entries in a sequence: the order of that sequence   *)
(* is the order in which `for k := range obj` yields the keys, which Go    *)
(* leaves unspecified, so inputs range over every entry order.             *)
(***************************************************************************)
EXTENDS Integers, Sequences, FiniteSets, TLC

VARIABLES input, optArgs, options, pc, result, outcome,
          lineWriter, pushes, calls, writers, history, normalizedValue

\* A LineWriter used on its own with the (depth, text) pairs pushed to it;
\* the Encode calls in flight with their LineWriters; the option lists of the
\* Encode calls made before the current one; the value returned by
\* normalizeValue called on its own.
aux == <<lineWriter, pushes, calls, writers, history, normalizedValue>>

vars == <<input, optArgs, options, pc, result, outcome,
          lineWriter, pushes, calls, writers, history, normalizedValue>>

---------------------------------------------------------------------------
(* Constants of the package (src/normalize.go, constants block).           *)

ListItemMarker == <<"-">>

ListItemPrefix == <<"-", " ">>

Colon == <<":">>

OpenBracket == <<"[">>

CloseBracket == <<"]">>

OpenBrace == <<"{">>

CloseBrace == <<"}">>

NullLiteral == <<"n", "u", "l", "l">>

TrueLiteral == <<"t", "r", "u", "e">>

FalseLiteral == <<"f", "a", "l", "s", "e">>

Backslash == <<"\\">>

DoubleQuote == <<"\"">>

DelimiterComma == <<",">>

DelimiterTab == <<"\t">>

DelimiterPipe == <<"|">>

DefaultDelimiter == DelimiterComma

---------------------------------------------------------------------------
(* Bytes and the helpers of package strings that the encoder calls.        *)

\* The characters of the model in ascending byte order: ASCII, then one
\* non-ASCII letter, whose UTF-8 bytes are all greater than any ASCII byte.
ByteOrder ==
    <<"\t", "\n", "\r", " ", "\"", "#", "+", ",", "-", ".", "0", "1", "2", "3",
      "4", "5", "6", "7", "8", "9", ":", "A", "B", "E", "T", "Z", "[", "\\",
      "]", "_", "a", "b", "c", "e", "f", "i", "l", "m", "n", "o", "p", "r", "s",
      "t", "u", "y", "z", "{", "|", "}", "é">>

Ord(c) == CHOOSE i \in 1..Len(ByteOrder) : ByteOrder[i] = c

Digit == {"0", "1", "2", "3", "4", "5", "6", "7", "8", "9"}

\* unicode.IsSpace restricted to the characters of the model.
WhiteSpace == {" ", "\t", "\n", "\r"}

\* strings.Contains: the empty substring is contained in every string.
Contains(s, sub) ==
    \E i \in 0..(Len(s) - Len(sub)) : SubSeq(s, i + 1, i + Len(sub)) = sub

ContainsAny(s, chars) == \E i \in 1..Len(s) : s[i] \in chars

HasPrefix(s, p) == Len(s) >= Len(p) /\ SubSeq(s, 1, Len(p)) = p

RECURSIVE TrimLeft(_)
TrimLeft(s) ==
    IF s # <<>> /\ s[1] \in WhiteSpace THEN TrimLeft(Tail(s)) ELSE s

RECURSIVE TrimRight(_)
TrimRight(s) ==
    IF s # <<>> /\ s[Len(s)] \in WhiteSpace
    THEN TrimRight(SubSeq(s, 1, Len(s) - 1))
    ELSE s

TrimSpace(s) == TrimRight(TrimLeft(s))

\* strings.ReplaceAll for a non-empty old: left to right, non-overlapping.
RECURSIVE ReplaceAll(_, _, _)
ReplaceAll(s, old, new) ==
    IF Len(s) < Len(old) THEN s
    ELSE IF SubSeq(s, 1, Len(old)) = old
         THEN new \o ReplaceAll(SubSeq(s, Len(old) + 1, Len(s)), old, new)
         ELSE <<s[1]>> \o ReplaceAll(Tail(s), old, new)

\* strings.Join
RECURSIVE Join(_, _)
Join(strs, sep) ==
    IF strs = <<>> THEN <<>>
    ELSE IF Len(strs) = 1 THEN strs[1]
    ELSE strs[1] \o sep \o Join(Tail(strs), sep)

\* strings.Repeat for count >= 0 (a negative count panics, see NewLineWriter).
RECURSIVE Repeat(_, _)
Repeat(s, count) == IF count <= 0 THEN <<>> ELSE s \o Repeat(s, count - 1)

\* The byte-wise string order of Go's < on strings.
RECURSIVE StrLess(_, _)
StrLess(a, b) ==
    IF b = <<>> THEN FALSE
    ELSE IF a = <<>> THEN TRUE
    ELSE IF a[1] = b[1] THEN StrLess(Tail(a), Tail(b))
    ELSE Ord(a[1]) < Ord(b[1])

---------------------------------------------------------------------------
(* primitives.go: the scalar encoder.                                      *)

\* strconv.FormatInt(n, 10) for n >= 0
RECURSIVE FormatNat(_)
FormatNat(n) ==
    IF n < 10 THEN <<ByteOrder[Ord("0") + n]>>
    ELSE FormatNat(n \div 10) \o <<ByteOrder[Ord("0") + (n % 10)]>>

\* formatNumber on a float64 holding an integral value.
formatNumber(f) == IF f < 0 THEN <<"-">> \o FormatNat(-f) ELSE FormatNat(f)

\* The index after the longest run of digits of s that starts at index i.
RECURSIVE SkipDigits(_, _)
SkipDigits(s, i) ==
    IF i <= Len(s) /\ s[i] \in Digit THEN SkipDigits(s, i + 1) ELSE i

\* numericPattern, first alternative: ^-?\d+(?:\.\d+)?(?:[eE][+-]?\d+)?$
MatchNumber(s) ==
    LET i1 == IF s # <<>> /\ s[1] = "-" THEN 2 ELSE 1
        i2 == SkipDigits(s, i1)
        f  == SkipDigits(s, i2 + 1)
        i3 == IF i2 <= Len(s) /\ s[i2] = "." /\ f > i2 + 1 THEN f ELSE i2
        j  == IF i3 + 1 <= Len(s) /\ s[i3 + 1] \in {"+", "-"}
              THEN i3 + 2 ELSE i3 + 1
        k  == SkipDigits(s, j)
        i4 == IF i3 <= Len(s) /\ s[i3] \in {"e", "E"} /\ k > j THEN k ELSE i3
    IN  i2 > i1 /\ i4 = Len(s) + 1

\* numericPattern, second alternative: ^0\d+$
MatchLeadingZero(s) ==
    /\ Len(s) >= 2
    /\ s[1] = "0"
    /\ SkipDigits(s, 2) = Len(s) + 1

isNumericLike(value) == MatchNumber(value) \/ MatchLeadingZero(value)

\* isSafeUnquoted without the final check for a leading hyphen.
isSafeUnquotedNoHyphenCheck(value, delimiter) ==
    /\ value # <<>>
    /\ TrimSpace(value) = value
    /\ value \notin {TrueLiteral, FalseLiteral, NullLiteral}
    /\ ~isNumericLike(value)
    /\ ~ContainsAny(value, {":", "\"", "\\", "[", "]", "{", "}", "\n", "\r", "\t"})
    /\ ~Contains(value, delimiter)

\* isSafeUnquoted without the check for the reserved literals.
isSafeUnquotedNoLiteralCheck(value, delimiter) ==
    /\ value # <<>>
    /\ TrimSpace(value) = value
    /\ ~isNumericLike(value)
    /\ ~ContainsAny(value, {":", "\"", "\\", "[", "]", "{", "}", "\n", "\r", "\t"})
    /\ ~Contains(value, delimiter)
    /\ ~HasPrefix(value, ListItemMarker)

\* isSafeUnquoted without the check for the active delimiter.
isSafeUnquotedNoDelimiterCheck(value, delimiter) ==
    /\ value # <<>>
    /\ TrimSpace(value) = value
    /\ value \notin {TrueLiteral, FalseLiteral, NullLiteral}
    /\ ~isNumericLike(value)
    /\ ~ContainsAny(value, {":", "\"", "\\", "[", "]", "{", "}", "\n", "\r", "\t"})
    /\ ~HasPrefix(value, ListItemMarker)

isSafeUnquoted(value, delimiter) ==
    IF value = <<>> THEN FALSE
    ELSE IF TrimSpace(value) # value THEN FALSE
    ELSE IF value = TrueLiteral \/ value = FalseLiteral \/ value = NullLiteral
         THEN FALSE
    ELSE IF isNumericLike(value) THEN FALSE
    ELSE IF Contains(value, Colon) THEN FALSE
    ELSE IF Contains(value, DoubleQuote) \/ Contains(value, Backslash)
         THEN FALSE
    ELSE IF ContainsAny(value, {"[", "]", "{", "}"}) THEN FALSE
    ELSE IF ContainsAny(value, {"\n", "\r", "\t"}) THEN FALSE
    ELSE IF Contains(value, delimiter) THEN FALSE
    ELSE IF HasPrefix(value, ListItemMarker) THEN FALSE
    ELSE TRUE

\* escapeString with the backslash replaced last instead of first.
escapeStringBackslashLast(value) ==
    LET v1 == ReplaceAll(value, DoubleQuote, Backslash \o DoubleQuote)
        v2 == ReplaceAll(v1, <<"\n">>, Backslash \o <<"n">>)
        v3 == ReplaceAll(v2, <<"\r">>, Backslash \o <<"r">>)
        v4 == ReplaceAll(v3, <<"\t">>, Backslash \o <<"t">>)
    IN  ReplaceAll(v4, Backslash, Backslash \o Backslash)

\* escapeString without the replacement of the line feed.
escapeStringKeepLineFeed(value) ==
    LET v1 == ReplaceAll(value, Backslash, Backslash \o Backslash)
        v2 == ReplaceAll(v1, DoubleQuote, Backslash \o DoubleQuote)
        v3 == ReplaceAll(v2, <<"\r">>, Backslash \o <<"r">>)
    IN  ReplaceAll(v3, <<"\t">>, Backslash \o <<"t">>)

escapeString(value) ==
    LET v1 == ReplaceAll(value, Backslash, Backslash \o Backslash)
        v2 == ReplaceAll(v1, DoubleQuote, Backslash \o DoubleQuote)
        v3 == ReplaceAll(v2, <<"\n">>, Backslash \o <<"n">>)
        v4 == ReplaceAll(v3, <<"\r">>, Backslash \o <<"r">>)
        v5 == ReplaceAll(v4, <<"\t">>, Backslash \o <<"t">>)
    IN  v5

encodeStringLiteral(value, delimiter) ==
    IF isSafeUnquoted(value, delimiter) THEN value
    ELSE DoubleQuote \o escapeString(value) \o DoubleQuote

encodePrimitive(value, delimiter) ==
    CASE value.t = "null" -> NullLiteral
      [] value.t = "bool" -> IF value.b THEN TrueLiteral ELSE FalseLiteral
      [] value.t = "num"  -> formatNumber(value.n)
      [] value.t = "str"  -> encodeStringLiteral(value.s, delimiter)
      [] OTHER            -> NullLiteral

\* validKeyPattern: ^[A-Za-z_][\w.]*$ with the classes taken by byte range.
InRange(c, lo, hi) == Ord(lo) <= Ord(c) /\ Ord(c) <= Ord(hi)

IsLetter(c) == InRange(c, "A", "Z") \/ InRange(c, "a", "z")

IsWord(c) == IsLetter(c) \/ InRange(c, "0", "9") \/ c = "_"

isValidUnquotedKey(key) ==
    /\ key # <<>>
    /\ IsLetter(key[1]) \/ key[1] = "_"
    /\ \A i \in 2..Len(key) : IsWord(key[i]) \/ key[i] = "."

encodeKey(key) ==
    IF isValidUnquotedKey(key) THEN key
    ELSE DoubleQuote \o escapeString(key) \o DoubleQuote

\* joinEncodedValues joining with the default delimiter, not the active one.
joinEncodedValuesDefault(values, delimiter) ==
    Join([i \in 1..Len(values) |-> encodePrimitive(values[i], delimiter)],
         DefaultDelimiter)

joinEncodedValues(values, delimiter) ==
    Join([i \in 1..Len(values) |-> encodePrimitive(values[i], delimiter)],
         delimiter)

\* headerOptions: key, fields, delimiter, lengthMarker
formatHeader(length, hopts) ==
    LET k == IF hopts.key # <<>> THEN encodeKey(hopts.key) ELSE <<>>
        m == IF hopts.lengthMarker THEN <<"#">> ELSE <<>>
        d == IF hopts.delimiter # DefaultDelimiter
             THEN hopts.delimiter ELSE <<>>
        quotedFields == [i \in 1..Len(hopts.fields) |->
                            encodeKey(hopts.fields[i])]
        f == IF Len(hopts.fields) > 0
             THEN OpenBrace \o Join(quotedFields, hopts.delimiter)
                  \o CloseBrace
             ELSE <<>>
    IN  k \o OpenBracket \o m \o FormatNat(length) \o d \o CloseBracket
        \o f \o Colon

\* formatInlineArray without the early return for an empty array.
formatInlineArrayNoEmptyCase(values, delimiter, prefix, lengthMarker) ==
    formatHeader(Len(values),
                 [key |-> prefix, fields |-> <<>>,
                  delimiter |-> delimiter, lengthMarker |-> lengthMarker])
    \o <<" ">> \o joinEncodedValues(values, delimiter)

formatInlineArray(values, delimiter, prefix, lengthMarker) ==
    LET header == formatHeader(Len(values),
                      [key |-> prefix, fields |-> <<>>,
                       delimiter |-> delimiter, lengthMarker |-> lengthMarker])
    IN  IF Len(values) = 0 THEN header
        ELSE header \o <<" ">> \o joinEncodedValues(values, delimiter)

---------------------------------------------------------------------------
(* primitives.go: LineWriter.                                              *)

\* Only called with indentSize >= 0: strings.Repeat panics on a negative
\* count, which encodeValue's caller observes (see Encode).
NewLineWriter(indentSize) ==
    [lines |-> <<>>, indentationString |-> Repeat(<<" ">>, indentSize)]

\* Push indenting every line below depth 0 by one level only.
PushOneLevel(w, depth, content) ==
    [w EXCEPT !.lines =
        Append(@, Repeat(w.indentationString, IF depth > 0 THEN 1 ELSE 0)
                  \o content)]

Push(w, depth, content) ==
    [w EXCEPT !.lines =
        Append(@, Repeat(w.indentationString, depth) \o content)]

String(w) == Join(w.lines, <<"\n">>)

---------------------------------------------------------------------------
(* normalize.go: type guards.                                              *)

isPrimitive(value) == value.t \in {"null", "bool", "num", "str"}

isArray(value) == value.t = "arr"

isObject(value) == value.t = "obj"

isArrayOfPrimitives(arr) == \A i \in 1..Len(arr) : isPrimitive(arr[i])

isArrayOfArrays(arr) == \A i \in 1..Len(arr) : isArray(arr[i])

isArrayOfObjects(arr) == \A i \in 1..Len(arr) : isObject(arr[i])

---------------------------------------------------------------------------
(* Go maps: an object's entries, in the order range yields them.           *)

\* for k := range obj { keys = append(keys, k) }
RangeKeys(obj) == [i \in 1..Len(obj.entries) |-> obj.entries[i].k]

\* obj[key] for a key that is present
Lookup(obj, key) ==
    obj.entries[CHOOSE i \in 1..Len(obj.entries) : obj.entries[i].k = key].v

\* _, exists := obj[key]
HasKey(obj, key) == \E i \in 1..Len(obj.entries) : obj.entries[i].k = key

\* Inserts key into an ascending sequence, before the first greater key.
RECURSIVE InsertSorted(_, _)
InsertSorted(sorted, key) ==
    IF sorted = <<>> THEN <<key>>
    ELSE IF StrLess(key, sorted[1]) THEN <<key>> \o sorted
    ELSE <<sorted[1]>> \o InsertSorted(Tail(sorted), key)

RECURSIVE SortFrom(_, _)
SortFrom(keys, sorted) ==
    IF keys = <<>> THEN sorted
    ELSE SortFrom(Tail(keys), InsertSorted(sorted, keys[1]))

\* The keys left in the order range yielded them.
SortStringsOmitted(keys) == keys

\* sort.Strings(keys)
SortStrings(keys) == SortFrom(keys, <<>>)

---------------------------------------------------------------------------
(* The recursive encoders.  Each takes the LineWriter and returns it with   *)
(* the lines the Go function pushes.                                       *)

HeaderOpts(key, fields, opts) ==
    [key |-> key, fields |-> fields, delimiter |-> opts.Delimiter,
     lengthMarker |-> opts.LengthMarker]

\* isTabularArray without the check that every value is a primitive.
isTabularArrayKeysOnly(objects, header) ==
    \A n \in 1..Len(objects) :
        /\ Len(objects[n].entries) = Len(header)
        /\ \A i \in 1..Len(header) : HasKey(objects[n], header[i])

\* for _, obj := range objects { ... } of isTabularArray
isTabularArray(objects, header) ==
    \A n \in 1..Len(objects) :
        /\ Len(objects[n].entries) = Len(header)
        /\ \A i \in 1..Len(header) :
              /\ HasKey(objects[n], header[i])
              /\ isPrimitive(Lookup(objects[n], header[i]))

\* Returns the header, or <<>> for Go's nil (a returned header is never
\* empty: the first object has at least one key).
detectTabularHeader(objects) ==
    IF Len(objects) = 0 THEN <<>>
    ELSE IF Len(objects[1].entries) = 0 THEN <<>>
    ELSE LET firstKeys == SortStrings(RangeKeys(objects[1]))
         IN  IF isTabularArray(objects, firstKeys) THEN firstKeys ELSE <<>>

\* writeTabularRows taking each row's values in the object's own key order.
RECURSIVE writeTabularRowsOwnOrder(_, _, _, _, _)
writeTabularRowsOwnOrder(objects, header, writer, depth, opts) ==
    IF objects = <<>> THEN writer
    ELSE LET own == RangeKeys(objects[1])
             values == [i \in 1..Len(own) |-> Lookup(objects[1], own[i])]
             joined == joinEncodedValues(values, opts.Delimiter)
         IN  writeTabularRowsOwnOrder(Tail(objects), header,
                                      Push(writer, depth, joined), depth, opts)

RECURSIVE writeTabularRows(_, _, _, _, _)
writeTabularRows(objects, header, writer, depth, opts) ==
    IF objects = <<>> THEN writer
    ELSE LET values == [i \in 1..Len(header) |-> Lookup(objects[1], header[i])]
             joined == joinEncodedValues(values, opts.Delimiter)
         IN  writeTabularRows(Tail(objects), header,
                              Push(writer, depth, joined), depth, opts)

encodeArrayOfObjectsAsTabular(prefix, objects, header, writer, depth, opts) ==
    LET headerStr == formatHeader(Len(objects), HeaderOpts(prefix, header, opts))
    IN  writeTabularRows(objects, header, Push(writer, depth, headerStr),
                         depth + 1, opts)

encodeInlinePrimitiveArray(prefix, values, writer, depth, opts) ==
    Push(writer, depth,
         formatInlineArray(values, opts.Delimiter, prefix, opts.LengthMarker))

\* The loop of encodeArrayOfArraysAsListItems.
RECURSIVE ArraysAsListItemsLoop(_, _, _, _)
ArraysAsListItemsLoop(arrays, writer, depth, opts) ==
    IF arrays = <<>> THEN writer
    ELSE LET item == arrays[1]
             w == IF isArray(item) /\ isArrayOfPrimitives(item.items)
                  THEN Push(writer, depth + 1,
                            ListItemPrefix \o
                            formatInlineArray(item.items, opts.Delimiter, <<>>,
                                              opts.LengthMarker))
                  ELSE writer
         IN  ArraysAsListItemsLoop(Tail(arrays), w, depth, opts)

\* The bullets of the sub-arrays at the depth of the header.
encodeArrayOfArraysAtHeaderDepth(prefix, arrays, writer, depth, opts) ==
    LET header == formatHeader(Len(arrays), HeaderOpts(prefix, <<>>, opts))
    IN  ArraysAsListItemsLoop(arrays, Push(writer, depth, header), depth - 1,
                              opts)

encodeArrayOfArraysAsListItems(prefix, arrays, writer, depth, opts) ==
    LET header == formatHeader(Len(arrays), HeaderOpts(prefix, <<>>, opts))
    IN  ArraysAsListItemsLoop(arrays, Push(writer, depth, header), depth, opts)

RECURSIVE encodeObject(_, _, _, _)
RECURSIVE encodeObjectLoop(_, _, _, _, _)
RECURSIVE encodeKeyValuePair(_, _, _, _, _)
RECURSIVE encodeArray(_, _, _, _, _)
RECURSIVE encodeMixedArrayAsListItems(_, _, _, _, _)
RECURSIVE MixedItemsLoop(_, _, _, _)
RECURSIVE encodeObjectAsListItem(_, _, _, _)
RECURSIVE ListItemObjectsLoop(_, _, _, _)
RECURSIVE ListItemComplexLoop(_, _, _, _)
RECURSIVE RemainingKeysLoop(_, _, _, _, _, _)

\* for _, key := range keys { encodeKeyValuePair(...) } of encodeObject
encodeObjectLoop(obj, keys, writer, depth, opts) ==
    IF keys = <<>> THEN writer
    ELSE encodeObjectLoop(obj, Tail(keys),
             encodeKeyValuePair(keys[1], Lookup(obj, keys[1]), writer, depth,
                                opts),
             depth, opts)

encodeObject(obj, writer, depth, opts) ==
    encodeObjectLoop(obj, SortStrings(RangeKeys(obj)), writer, depth, opts)

encodeKeyValuePair(key, value, writer, depth, opts) ==
    LET encodedKey == encodeKey(key)
    IN  IF isPrimitive(value)
        THEN Push(writer, depth,
                  encodedKey \o Colon \o <<" ">>
                  \o encodePrimitive(value, opts.Delimiter))
        ELSE IF isArray(value)
        THEN encodeArray(key, value.items, writer, depth, opts)
        ELSE IF Len(RangeKeys(value)) = 0
        THEN Push(writer, depth, encodedKey \o Colon)
        ELSE encodeObject(value, Push(writer, depth, encodedKey \o Colon),
                          depth + 1, opts)

encodeArray(key, arr, writer, depth, opts) ==
    IF Len(arr) = 0
    THEN Push(writer, depth, formatHeader(0, HeaderOpts(key, <<>>, opts)))
    ELSE IF isArrayOfPrimitives(arr)
    THEN encodeInlinePrimitiveArray(key, arr, writer, depth, opts)
    ELSE IF /\ isArrayOfArrays(arr)
            /\ \A i \in 1..Len(arr) : isArrayOfPrimitives(arr[i].items)
    THEN encodeArrayOfArraysAsListItems(key, arr, writer, depth, opts)
    ELSE IF isArrayOfObjects(arr)
    THEN LET header == detectTabularHeader(arr)
         IN  IF header # <<>>
             THEN encodeArrayOfObjectsAsTabular(key, arr, header, writer,
                                                depth, opts)
             ELSE encodeMixedArrayAsListItems(key, arr, writer, depth, opts)
    ELSE encodeMixedArrayAsListItems(key, arr, writer, depth, opts)

\* for _, item := range items { ... } of encodeMixedArrayAsListItems
MixedItemsLoop(items, writer, depth, opts) ==
    IF items = <<>> THEN writer
    ELSE LET item == items[1]
             w == IF isPrimitive(item)
                  THEN Push(writer, depth + 1,
                            ListItemPrefix
                            \o encodePrimitive(item, opts.Delimiter))
                  ELSE IF isArray(item)
                  THEN IF isArrayOfPrimitives(item.items)
                       THEN Push(writer, depth + 1,
                                 ListItemPrefix \o
                                 formatInlineArray(item.items, opts.Delimiter,
                                                   <<>>, opts.LengthMarker))
                       ELSE writer
                  ELSE encodeObjectAsListItem(item, writer, depth + 1, opts)
         IN  MixedItemsLoop(Tail(items), w, depth, opts)

encodeMixedArrayAsListItems(prefix, items, writer, depth, opts) ==
    LET header == formatHeader(Len(items), HeaderOpts(prefix, <<>>, opts))
    IN  MixedItemsLoop(items, Push(writer, depth, header), depth, opts)

\* The loop of the "fall back to list format" branch (objects only).
ListItemObjectsLoop(arr, writer, depth, opts) ==
    IF arr = <<>> THEN writer
    ELSE ListItemObjectsLoop(Tail(arr),
             IF isObject(arr[1])
             THEN encodeObjectAsListItem(arr[1], writer, depth + 1, opts)
             ELSE writer,
             depth, opts)

\* The loop of the "complex arrays on separate lines" branch.
ListItemComplexLoop(arr, writer, depth, opts) ==
    IF arr = <<>> THEN writer
    ELSE LET item == arr[1]
             w == IF isPrimitive(item)
                  THEN Push(writer, depth + 1,
                            ListItemPrefix
                            \o encodePrimitive(item, opts.Delimiter))
                  ELSE IF isArray(item) /\ isArrayOfPrimitives(item.items)
                  THEN Push(writer, depth + 1,
                            ListItemPrefix \o
                            formatInlineArray(item.items, opts.Delimiter, <<>>,
                                              opts.LengthMarker))
                  ELSE IF isObject(item)
                  THEN encodeObjectAsListItem(item, writer, depth + 1, opts)
                  ELSE writer
         IN  ListItemComplexLoop(Tail(arr), w, depth, opts)

\* The remaining keys rendered at the bullet's own depth.
RemainingKeysAtBulletDepth(obj, keys, i, writer, depth, opts) ==
    encodeObjectLoop(obj, SubSeq(keys, i, Len(keys)), writer, depth, opts)

\* for i := 1; i < len(keys); i++ { encodeKeyValuePair(...) }
RemainingKeysLoop(obj, keys, i, writer, depth, opts) ==
    IF i > Len(keys) THEN writer
    ELSE RemainingKeysLoop(obj, keys, i + 1,
             encodeKeyValuePair(keys[i], Lookup(obj, keys[i]), writer,
                                depth + 1, opts),
             depth, opts)

\* fmt.Sprintf("%s%s[%d]:", ListItemPrefix, encodedKey, len(arr))
SprintfListHeader(encodedKey, n) ==
    ListItemPrefix \o encodedKey \o <<"[">> \o FormatNat(n) \o <<"]", ":">>

encodeObjectAsListItem(obj, writer, depth, opts) ==
    LET keys == SortStrings(RangeKeys(obj))
    IN  IF Len(keys) = 0 THEN Push(writer, depth, ListItemMarker)
        ELSE
        LET firstKey == keys[1]
            encodedKey == encodeKey(firstKey)
            firstValue == Lookup(obj, firstKey)
            arr == firstValue.items
            header == detectTabularHeader(arr)
            w == IF isPrimitive(firstValue)
                 THEN Push(writer, depth,
                           ListItemPrefix \o encodedKey \o Colon \o <<" ">>
                           \o encodePrimitive(firstValue, opts.Delimiter))
                 ELSE IF isArray(firstValue)
                 THEN IF isArrayOfPrimitives(arr)
                      THEN Push(writer, depth,
                                ListItemPrefix \o
                                formatInlineArray(arr, opts.Delimiter, firstKey,
                                                  opts.LengthMarker))
                      ELSE IF isArrayOfObjects(arr)
                      THEN IF header # <<>>
                           THEN writeTabularRows(arr, header,
                                    Push(writer, depth,
                                         ListItemPrefix \o
                                         formatHeader(Len(arr),
                                             HeaderOpts(firstKey, header, opts))),
                                    depth + 1, opts)
                           ELSE ListItemObjectsLoop(arr,
                                    Push(writer, depth,
                                         SprintfListHeader(encodedKey, Len(arr))),
                                    depth, opts)
                      ELSE ListItemComplexLoop(arr,
                               Push(writer, depth,
                                    SprintfListHeader(encodedKey, Len(arr))),
                               depth, opts)
                 ELSE IF Len(RangeKeys(firstValue)) = 0
                 THEN Push(writer, depth, ListItemPrefix \o encodedKey \o Colon)
                 ELSE encodeObject(firstValue,
                          Push(writer, depth,
                               ListItemPrefix \o encodedKey \o Colon),
                          depth + 2, opts)
        IN  RemainingKeysLoop(obj, keys, 2, w, depth, opts)

\* The result of encodeValue when NewLineWriter does not panic.
encodeValue(value, opts) ==
    IF isPrimitive(value) THEN encodePrimitive(value, opts.Delimiter)
    ELSE LET writer == NewLineWriter(opts.Indent)
         IN  IF isArray(value)
             THEN String(encodeArray(<<>>, value.items, writer, 0, opts))
             ELSE String(encodeObject(value, writer, 0, opts))

---------------------------------------------------------------------------
(* types.go: options.                                                      *)

WithIndent(n) == [f |-> "WithIndent", n |-> n]

WithDelimiter(d) == [f |-> "WithDelimiter", d |-> d]

WithLengthMarker == [f |-> "WithLengthMarker"]

DefaultIndent == 2

defaultOptions ==
    [Indent |-> DefaultIndent, Delimiter |-> DefaultDelimiter, LengthMarker |-> FALSE]

\* opt(options) for one EncodeOption closure
ApplyOption(o, opt) ==
    CASE opt.f = "WithIndent"       -> [o EXCEPT !.Indent = opt.n]
      [] opt.f = "WithDelimiter"    -> [o EXCEPT !.Delimiter = opt.d]
      [] opt.f = "WithLengthMarker" -> [o EXCEPT !.LengthMarker = TRUE]

RECURSIVE ApplyOptions(_, _)
ApplyOptions(o, optList) ==
    IF optList = <<>> THEN o
    ELSE ApplyOptions(ApplyOption(o, optList[1]), Tail(optList))

\* The options applied to the options value of the call before.
resolveOptionsReused(optList) == ApplyOptions(options, optList)

resolveOptions(optList) == ApplyOptions(defaultOptions, optList)

---------------------------------------------------------------------------
(* normalize.go: normalizeValue.  A host value is a record tagged with its *)
(* reflect.Kind:                                                           *)
(*   "null"    the nil interface                                           *)
(*   "bool"    b                                                           *)
(*   "int", "uint"   n: the integer kinds                                  *)
(*   "num"     n: a finite float that is not negative zero                 *)
(*   "float"   f: one of "NaN", "+Inf", "-Inf", "-0"                       *)
(*   "str"     s                                                           *)
(*   "arr"     items: a slice or an array                                  *)
(*   "obj"     entries: a map[string]interface{}                           *)
(*   "map"     keyKind, entries: a map of any other type (a key that is    *)
(*             not a string is written as its digits)                      *)
(*   "time"    sec, nsec, offset: a time.Time, sec counted from            *)
(*             2025-01-15T00:00:00Z, offset the zone's seconds east of UTC *)
(*   "struct"  fields: each with name, exported, tag (its json tag), v     *)
(*   "ptr"     isNil, elem: a pointer                                      *)
(*   "func", "chan", "complex", "uintptr": kinds without a case            *)

\* The decimal digit of n in 0..9.
DigitChar(n) == ByteOrder[Ord("0") + n]

\* n in decimal, zero-padded to width digits.
RECURSIVE PadNat(_, _)
PadNat(n, width) ==
    IF width = 0 THEN <<>>
    ELSE PadNat(n \div 10, width - 1) \o <<DigitChar(n % 10)>>

RECURSIVE TrimZeros(_)
TrimZeros(digits) ==
    IF digits # <<>> /\ digits[Len(digits)] = "0"
    THEN TrimZeros(SubSeq(digits, 1, Len(digits) - 1))
    ELSE digits

\* The zone written as UTC whatever the offset.
ZoneSuffixAlwaysZ(offset) == <<"Z">>

\* The "Z07:00" element of the layout: "Z" for a zero offset, else the signed
\* hours and minutes.
ZoneSuffix(offset) ==
    LET zone == IF offset < 0 THEN -offset ELSE offset
    IN  IF offset = 0 THEN <<"Z">>
        ELSE <<IF offset < 0 THEN "-" ELSE "+">>
             \o PadNat(zone \div 3600, 2) \o <<":">>
             \o PadNat((zone % 3600) \div 60, 2)

\* t.Format(time.RFC3339Nano), layout "2006-01-02T15:04:05.999999999Z07:00":
\* the date and the clock in the time's own zone, the fraction without
\* trailing zeros, "Z" for a zero offset and the signed offset otherwise.
\* The times of the model lie in January 2025.
FormatRFC3339Nano(t) ==
    LET abs == t.sec + t.offset
        day == 15 + (abs \div 86400)
        clock == abs % 86400
        fraction == IF t.nsec = 0 THEN <<>>
                    ELSE <<".">> \o TrimZeros(PadNat(t.nsec, 9))
    IN  <<"2", "0", "2", "5", "-", "0", "1", "-">> \o PadNat(day, 2) \o <<"T">>
        \o PadNat(clock \div 3600, 2) \o <<":">>
        \o PadNat((clock % 3600) \div 60, 2) \o <<":">>
        \o PadNat(clock % 60, 2) \o fraction \o ZoneSuffix(t.offset)

\* obj[key] = v.  The entries of a map come in the order they were first
\* set: one of the orders range may yield, and no encoder depends on which.
MapSet(entries, key, v) ==
    IF \E i \in 1..Len(entries) : entries[i].k = key
    THEN [i \in 1..Len(entries) |->
             IF entries[i].k = key THEN [k |-> key, v |-> v] ELSE entries[i]]
    ELSE Append(entries, [k |-> key, v |-> v])

RECURSIVE normalizeValue(_)
RECURSIVE StructFields(_, _)
RECURSIVE MapEntries(_, _)

\* for i := 0; i < v.NumField(); i++ { ... } of the struct case
StructFields(fields, entries) ==
    IF fields = <<>> THEN entries
    ELSE LET field == fields[1]
             name == IF field.tag # <<>> /\ field.tag # <<"-">>
                     THEN field.tag ELSE field.name
         IN  StructFields(Tail(fields),
                 IF field.exported
                 THEN MapSet(entries, name, normalizeValue(field.v))
                 ELSE entries)

\* The map case storing the values as they are.
MapEntriesAsGiven(hostEntries, entries) == entries \o hostEntries

\* for iter.Next() { obj[key] = normalizeValue(...) } of the map case
MapEntries(hostEntries, entries) ==
    IF hostEntries = <<>> THEN entries
    ELSE MapEntries(Tail(hostEntries),
             MapSet(entries, hostEntries[1].k,
                    normalizeValue(hostEntries[1].v)))

normalizeValue(value) ==
    CASE value.t = "null" -> value
      [] value.t = "bool" -> [t |-> "bool", b |-> value.b]
      [] value.t \in {"int", "uint"} -> [t |-> "num", n |-> value.n]
      [] value.t = "float" ->
            IF value.f \in {"NaN", "+Inf", "-Inf"} THEN [t |-> "null"]
            ELSE [t |-> "num", n |-> 0]
      [] value.t = "num"  -> [t |-> "num", n |-> value.n]
      [] value.t = "str"  -> [t |-> "str", s |-> value.s]
      [] value.t = "arr"  ->
            [t |-> "arr",
             items |-> [i \in 1..Len(value.items) |->
                           normalizeValue(value.items[i])]]
      [] value.t = "obj"  ->
            [t |-> "obj", entries |-> MapEntries(value.entries, <<>>)]
      [] value.t = "map"  ->
            IF value.keyKind # "string" THEN [t |-> "null"]
            ELSE [t |-> "obj", entries |-> MapEntries(value.entries, <<>>)]
      [] value.t = "time" -> [t |-> "str", s |-> FormatRFC3339Nano(value)]
      [] value.t = "struct" ->
            [t |-> "obj", entries |-> StructFields(value.fields, <<>>)]
      [] value.t = "ptr"  ->
            IF value.isNil THEN [t |-> "null"] ELSE normalizeValue(value.elem)
      [] OTHER            -> [t |-> "null"]

---------------------------------------------------------------------------
(* The inputs of the model.                                                *)

Null == [t |-> "null"]

Bool(b) == [t |-> "bool", b |-> b]

Num(n) == [t |-> "num", n |-> n]

Str(s) == [t |-> "str", s |-> s]

Arr(items) == [t |-> "arr", items |-> items]

Obj(entries) == [t |-> "obj", entries |-> entries]

\* The longest array of leaves.
MaxLeafLen == 2

\* "B" < "a" byte-wise, though not alphabetically.
Keys == {<<"a">>, <<"B">>}

CoreScalars == {Num(1), Str(<<"a">>)}

RichScalars ==
    {Null, Bool(TRUE), Num(12), Str(<<"a">>), Str(<<"a", "|", "b">>),
     Str(<<>>)}

Leaves == CoreScalars \cup {Obj(<<>>)}

\* All arrays of at most n elements of S.
ArraysOver(S, n) == {Arr(items) : items \in UNION {[1..k -> S] : k \in 0..n}}

\* The sequences of n distinct keys of K.
InjSeqs(K, n) ==
    {ks \in [1..n -> K] : \A i, j \in 1..n : ks[i] = ks[j] => i = j}

\* All objects with distinct keys of K in every iteration order, values in S.
ObjectsOver(K, S) ==
    UNION {{Obj([i \in 1..n |-> [k |-> ks[i], v |-> vs[i]]]) :
               ks \in InjSeqs(K, n), vs \in [1..n -> S]} :
           n \in 0..Cardinality(K)}

\* Containers of leaves.
Level1 ==
    Leaves \cup ArraysOver(Leaves, MaxLeafLen) \cup ObjectsOver(Keys, Leaves)

\* Arrays of one or two values of Level1.
Level2Arrays ==
    {Arr(<<x>>) : x \in Level1} \cup {Arr(<<x, y>>) : x, y \in Level1}

\* Objects with one value of Level1 and at most one other key, a leaf.
Level2Objects ==
    {Obj(<<[k |-> k1, v |-> x]>>) : k1 \in Keys, x \in Level1}
    \cup {Obj(<<[k |-> ks[1], v |-> x], [k |-> ks[2], v |-> y]>>) :
             ks \in InjSeqs(Keys, Cardinality(Keys)), x \in Level1, y \in Leaves}
    \cup {Obj(<<[k |-> ks[1], v |-> y], [k |-> ks[2], v |-> x]>>) :
             ks \in InjSeqs(Keys, Cardinality(Keys)), x \in Level1, y \in Leaves}

\* A Level2 object as the only element of an array, a Level2 array as the
\* value of a key.
Level3 ==
    {Arr(<<x>>) : x \in Level2Objects}
    \cup {Obj(<<[k |-> <<"a">>, v |-> x]>>) : x \in Level2Arrays}

\* Arrays of scalars of every type, at top level and as the value of a key.
InlineInputs ==
    LET A == ArraysOver(RichScalars, MaxLeafLen)
    IN  RichScalars \cup A \cup {Obj(<<[k |-> <<"a">>, v |-> x]>>) : x \in A}

\* A Level2 object as the only element of an array two keys deep.
DeepLists ==
    {Obj(<<[k |-> <<"a">>,
            v |-> Obj(<<[k |-> <<"B">>, v |-> Arr(<<x>>)]>>)]>>) :
        x \in Level2Objects}

Inputs ==
    Level1 \cup Level2Arrays \cup Level2Objects \cup Level3 \cup InlineInputs
    \cup DeepLists

Delimiters == {DelimiterComma, DelimiterTab, DelimiterPipe}

OptionLists ==
    {<<>>, <<WithLengthMarker>>, <<WithIndent(1)>>}
    \cup {<<WithDelimiter(d)>> : d \in Delimiters}
    \cup {<<WithDelimiter(d), WithLengthMarker>> : d \in Delimiters}

---------------------------------------------------------------------------
(* Encode.                                                                 *)

\* No LineWriter on its own, no calls in flight, no earlier calls.
AuxIdle ==
    /\ lineWriter = [lines |-> <<>>, indentationString |-> <<>>]
    /\ pushes = <<>>
    /\ calls = <<>>
    /\ writers = <<>>
    /\ history = <<>>
    /\ normalizedValue = [t |-> "null"]

Init ==
    /\ input \in Inputs
    /\ optArgs \in OptionLists
    /\ options = defaultOptions
    /\ pc = "start"
    /\ result = <<>>
    /\ outcome = "pending"
    /\ AuxIdle

Encode ==
    /\ pc = "start"
    /\ LET normalized == normalizeValue(input)
           o == resolveOptions(optArgs)
       IN  /\ options' = o
           /\ IF ~isPrimitive(normalized) /\ o.Indent < 0
              THEN outcome' = "panic" /\ result' = <<>>
              ELSE outcome' = "nil" /\ result' = encodeValue(normalized, o)
    /\ pc' = "done"
    /\ UNCHANGED <<input, optArgs>>
    /\ UNCHANGED aux

Next == Encode

Spec == Init /\ [][Next]_vars

---------------------------------------------------------------------------
(* The scalar encoder on its own: encodeStringLiteral and escapeString     *)
(* applied to every string of the bounds below.                            *)

\* The longest string over the whole alphabet.
MaxStrLen == 2

\* The longest string over the characters of numbers.
MaxNumLen == 4

\* The longest string over the characters that escaping is about.
MaxEscLen == 4

Alphabet ==
    {" ", "\t", "\n", "\r", "\"", "\\", ":", "[", "]", "{", "}", ",", "|",
     "-", ".", "+", "0", "1", "e", "E", "a", "_", "n", "r", "t"}

NumAlphabet == {"0", "1", "-", ".", "e", "+"}

EscAlphabet == {"\\", "\"", "\n", "n", "a"}

SeqsUpTo(S, n) == UNION {[1..k -> S] : k \in 0..n}

\* The reserved literals and near misses of them.
Words ==
    {TrueLiteral, FalseLiteral, NullLiteral,
     <<"t", "r", "u">>, <<"t", "r", "u", "e", "e">>, <<"n", "u", "l", "l", " ">>,
     <<"a", "t", "r", "u", "e">>, <<"f", "a", "l", "s", "e", ",", "a">>,
     <<"-", "1", ".", "0", "e", "+", "1">>, <<"1", ".", "0", "E", "-", "1", "0">>,
     <<"0", "0", "1", "2", "3", "4", "5", "6", "7", "8", "9">>,
     <<"a", " ", "a", "a">>, <<"a", "-", "1">>}

StrInputs ==
    SeqsUpTo(Alphabet, MaxStrLen) \cup SeqsUpTo(NumAlphabet, MaxNumLen)
    \cup SeqsUpTo(EscAlphabet, MaxEscLen) \cup Words

\* Delimiters outside the documented three are accepted as they are.
StrDelimiters == Delimiters \cup {<<>>, <<"a", "a">>}

InitStr ==
    /\ input \in {Str(s) : s \in StrInputs}
    /\ optArgs \in {<<WithDelimiter(d)>> : d \in StrDelimiters}
    /\ options = defaultOptions
    /\ pc = "start"
    /\ result = <<>>
    /\ outcome = "pending"
    /\ AuxIdle

CallEncodeStringLiteral ==
    /\ pc = "start"
    /\ options' = resolveOptions(optArgs)
    /\ result' = encodeStringLiteral(input.s, options'.Delimiter)
    /\ pc' = "encoded"
    /\ UNCHANGED <<input, optArgs, outcome>>
    /\ UNCHANGED aux

CallEscapeString ==
    /\ pc = "start"
    /\ result' = escapeString(input.s)
    /\ pc' = "escaped"
    /\ UNCHANGED <<input, optArgs, options, outcome>>
    /\ UNCHANGED aux

NextStr == CallEncodeStringLiteral \/ CallEscapeString

SpecStr == InitStr /\ [][NextStr]_vars

---------------------------------------------------------------------------
(* Encode under every option list of the bounds below, on small inputs.    *)

MaxIndent == 2

MaxOptions == 2

EntryOptions ==
    {WithIndent(n) : n \in -1..MaxIndent}
    \cup {WithDelimiter(d) : d \in StrDelimiters}
    \cup {WithLengthMarker}

InitEntry ==
    /\ input \in Level1
    /\ optArgs \in SeqsUpTo(EntryOptions, MaxOptions)
    /\ options = defaultOptions
    /\ pc = "start"
    /\ result = <<>>
    /\ outcome = "pending"
    /\ AuxIdle

SpecEntry == InitEntry /\ [][Next]_vars

---------------------------------------------------------------------------
(* Encode on objects whose keys range over every kind of key text.         *)

\* The longest key over the key alphabet.
MaxKeyLen == 2

KeyAlphabet == {"a", "Z", "1", "_", ".", " ", "-", ":", ",", "|", "\"", "é"}

\* Keys of every kind: empty, plain, dotted, starting with a digit, holding a
\* space, a hyphen, a colon, a delimiter, a quote, a backslash, a control
\* character, a non-ASCII letter.
KeyPool ==
    {<<>>, <<"a">>, <<"_", "1">>, <<"a", ".", "b">>, <<"1", "a">>,
     <<"a", " ", "b">>, <<"a", "-", "b">>, <<"a", ":">>, <<"a", ",", "b">>,
     <<"a", "|", "b">>, <<"a", "\t", "b">>, <<"\"", "a">>, <<"a", "\\", "n">>,
     <<"a", "\n">>, <<"é">>}

\* A key that sorts after every key of KeyPool but the non-ASCII one.
OtherKey == <<"z">>

\* One value of each rendering of encodeKeyValuePair and encodeArray.
KeyedValues ==
    {Num(1), Str(<<"a">>), Arr(<<>>), Arr(<<Num(1), Str(<<"a">>)>>),
     Arr(<<Arr(<<>>), Arr(<<Num(1)>>)>>),
     Arr(<<Obj(<<[k |-> OtherKey, v |-> Num(1)]>>)>>),
     Arr(<<Obj(<<>>), Num(1)>>),
     Obj(<<>>), Obj(<<[k |-> OtherKey, v |-> Num(1)]>>)}

\* Objects with a key of KeyPool alone, before and after another key, each
\* also as the only element of an array; every short key with a scalar, an
\* inline array, and as the field name of a table.
KeyInputs ==
    LET One == {Obj(<<[k |-> k1, v |-> x]>>) : k1 \in KeyPool, x \in KeyedValues}
        Two == {Obj(<<[k |-> OtherKey, v |-> Str(<<"a">>)], [k |-> k1, v |-> x]>>) :
                   k1 \in KeyPool, x \in KeyedValues}
        Short == SeqsUpTo(KeyAlphabet, MaxKeyLen)
    IN  One \cup Two \cup {Arr(<<x>>) : x \in One \cup Two}
        \cup {Obj(<<[k |-> k1, v |-> Num(1)]>>) : k1 \in Short}
        \cup {Obj(<<[k |-> k1, v |-> Arr(<<Num(1)>>)]>>) : k1 \in Short}
        \cup {Arr(<<Obj(<<[k |-> k1, v |-> Num(1)]>>)>>) : k1 \in Short}

InitKey ==
    /\ input \in KeyInputs
    /\ optArgs \in {<<WithDelimiter(d)>> : d \in Delimiters}
                   \cup {<<WithDelimiter(DelimiterPipe), WithLengthMarker>>}
    /\ options = defaultOptions
    /\ pc = "start"
    /\ result = <<>>
    /\ outcome = "pending"
    /\ AuxIdle

SpecKey == InitKey /\ [][Next]_vars

---------------------------------------------------------------------------
(* A LineWriter on its own: any sequence of Push calls, and String.        *)

\* The most Push calls on one LineWriter.
MaxPushes == 3

Depths == {0, 1, 3}

\* Line texts: empty, plain, starting with a space, a bullet.
Contents == {<<>>, <<"a">>, <<" ", "a">>, <<"-", " ", "a">>}

InitWriter ==
    /\ \E w \in 0..MaxIndent :
          /\ options = [defaultOptions EXCEPT !.Indent = w]
          /\ lineWriter = NewLineWriter(w)
    /\ pushes = <<>>
    /\ pc = "writer"
    /\ result = <<>>
    /\ input = [t |-> "null"]
    /\ optArgs = <<>>
    /\ outcome = "pending"
    /\ calls = <<>>
    /\ writers = <<>>
    /\ history = <<>>
    /\ normalizedValue = [t |-> "null"]

\* w.Push(depth, content)
CallPush ==
    /\ pc \in {"writer", "rendered"}
    /\ Len(pushes) < MaxPushes
    /\ \E depth \in Depths, content \in Contents :
          /\ lineWriter' = Push(lineWriter, depth, content)
          /\ pushes' = Append(pushes, [depth |-> depth, text |-> content])
    /\ pc' = "writer"
    /\ UNCHANGED <<input, optArgs, options, result, outcome, calls, writers,
                   history, normalizedValue>>

\* w.String()
CallString ==
    /\ pc = "writer"
    /\ result' = String(lineWriter)
    /\ pc' = "rendered"
    /\ UNCHANGED <<input, optArgs, options, outcome>>
    /\ UNCHANGED aux

NextWriter == CallPush \/ CallString

SpecWriter == InitWriter /\ [][NextWriter]_vars

---------------------------------------------------------------------------
(* Concurrent Encode calls: each call is a goroutine that runs Encode step *)
(* by step, a Push at a time, interleaved with the other.                  *)

CallIds == {1, 2}

ConcInputs ==
    {Num(1),
     Arr(<<Num(1), Str(<<"a">>)>>),
     Obj(<<[k |-> <<"a">>, v |-> Num(1)], [k |-> <<"B">>, v |-> Str(<<"a">>)]>>),
     Arr(<<Obj(<<[k |-> <<"a">>, v |-> Num(1)]>>),
           Obj(<<[k |-> <<"B">>, v |-> Arr(<<>>)]>>)>>),
     Obj(<<[k |-> <<"a">>, v |-> Obj(<<[k |-> <<"B">>, v |-> Num(1)]>>)]>>)}

ConcOptionLists ==
    {<<>>, <<WithIndent(1)>>, <<WithDelimiter(DelimiterPipe), WithLengthMarker>>}

\* Both calls on one LineWriter.
WriterShared(c) == 1

\* writer := NewLineWriter(opts.Indent): a LineWriter of the call's own.
WriterOf(c) == c

\* The lines encodeArray or encodeObject pushes, in push order, each as Push
\* builds it from the depth and the content.
LinesToPush(value, opts) ==
    LET writer == NewLineWriter(opts.Indent)
    IN  IF isArray(value)
        THEN encodeArray(<<>>, value.items, writer, 0, opts).lines
        ELSE encodeObject(value, writer, 0, opts).lines

\* Another call has started and not returned.
OtherInFlight(c) ==
    \E c2 \in CallIds \ {c} : calls[c2].pc \notin {"start", "done", "panic"}

InitConc ==
    /\ calls \in [CallIds ->
                    {[pc |-> "start", input |-> v, optArgs |-> a,
                      normalized |-> Null, options |-> defaultOptions,
                      pending |-> <<>>, result |-> <<>>, overlapped |-> FALSE] :
                        v \in ConcInputs, a \in ConcOptionLists}]
    /\ writers = [c \in CallIds |-> NewLineWriter(0)]
    /\ pc = "calls"
    /\ input = Null
    /\ optArgs = <<>>
    /\ options = defaultOptions
    /\ result = <<>>
    /\ outcome = "pending"
    /\ lineWriter = [lines |-> <<>>, indentationString |-> <<>>]
    /\ pushes = <<>>
    /\ history = <<>>
    /\ normalizedValue = Null

\* One step of call c: the fields of its record that the step sets.
StepOf(c, fields) ==
    calls' = [calls EXCEPT ![c] =
                 [f \in DOMAIN calls[c] |->
                     IF f \in DOMAIN fields THEN fields[f]
                     ELSE IF f = "overlapped"
                          THEN calls[c].overlapped \/ OtherInFlight(c)
                          ELSE calls[c][f]]]

\* normalized := normalizeValue(input)
CallNormalize(c) ==
    /\ calls[c].pc = "start"
    /\ StepOf(c, [pc |-> "normalized",
                  normalized |-> normalizeValue(calls[c].input)])
    /\ UNCHANGED writers

\* options := resolveOptions(opts)
CallResolve(c) ==
    /\ calls[c].pc = "normalized"
    /\ StepOf(c, [pc |-> "resolved",
                  options |-> resolveOptions(calls[c].optArgs)])
    /\ UNCHANGED writers

\* encodeValue up to the first Push: a primitive is returned at once,
\* otherwise the call creates its LineWriter (NewLineWriter panics on a
\* negative indent, which no option list of ConcOptionLists sets).
CallBegin(c) ==
    /\ calls[c].pc = "resolved"
    /\ LET v == calls[c].normalized
           o == calls[c].options
       IN  IF isPrimitive(v)
           THEN /\ StepOf(c, [pc |-> "done",
                              result |-> encodePrimitive(v, o.Delimiter)])
                /\ UNCHANGED writers
           ELSE IF o.Indent < 0
           THEN /\ StepOf(c, [pc |-> "panic"])
                /\ UNCHANGED writers
           ELSE /\ StepOf(c, [pc |-> "writing", pending |-> LinesToPush(v, o)])
                /\ writers' = [writers EXCEPT ![WriterOf(c)] =
                                   NewLineWriter(o.Indent)]

\* writer.Push(depth, content): w.lines = append(w.lines, indent+content)
CallPushLine(c) ==
    /\ calls[c].pc = "writing"
    /\ calls[c].pending # <<>>
    /\ StepOf(c, [pending |-> Tail(calls[c].pending)])
    /\ writers' = [writers EXCEPT ![WriterOf(c)].lines =
                       Append(@, calls[c].pending[1])]

\* return writer.String()
CallReturn(c) ==
    /\ calls[c].pc = "writing"
    /\ calls[c].pending = <<>>
    /\ StepOf(c, [pc |-> "done", result |-> String(writers[WriterOf(c)])])
    /\ UNCHANGED writers

NextConc ==
    /\ \E c \in CallIds :
          \/ CallNormalize(c)
          \/ CallResolve(c)
          \/ CallBegin(c)
          \/ CallPushLine(c)
          \/ CallReturn(c)
    /\ UNCHANGED <<input, optArgs, options, pc, result, outcome, lineWriter,
                   pushes, history, normalizedValue>>

SpecConc == InitConc /\ [][NextConc]_vars

---------------------------------------------------------------------------
(* normalizeValue on its own, and Encode, on host values of every kind.    *)

IntOf(n) == [t |-> "int", n |-> n]

UintOf(n) == [t |-> "uint", n |-> n]

Float(f) == [t |-> "float", f |-> f]

NilPtr == [t |-> "ptr", isNil |-> TRUE]

Ptr(x) == [t |-> "ptr", isNil |-> FALSE, elem |-> x]

Map(keyKind, entries) == [t |-> "map", keyKind |-> keyKind, entries |-> entries]

Time(sec, nsec, offset) ==
    [t |-> "time", sec |-> sec, nsec |-> nsec, offset |-> offset]

Field(name, exported, tag, v) ==
    [name |-> name, exported |-> exported, tag |-> tag, v |-> v]

Struct(fields) == [t |-> "struct", fields |-> fields]

\* The longest slice of host scalars.
MaxHostLen == 2

\* The most fields of a struct.
MaxFields == 2

HostScalars ==
    {Null, Bool(FALSE), IntOf(-2), UintOf(3), Num(1), Float("NaN"), Float("+Inf"),
     Float("-Inf"), Float("-0"), Str(<<"a">>), NilPtr, [t |-> "func"],
     [t |-> "chan"]}

\* 00:00:00, 10:30:00 and 23:59:59 of 2025-01-15 in UTC.
TimeSecs == {0, 37800, 86399}

TimeNanos == {0, 500000000, 120}

\* UTC, +08:00 and -05:30.
TimeOffsets == {0, 28800, -19800}

Times == {Time(s, n, o) : s \in TimeSecs, n \in TimeNanos, o \in TimeOffsets}

\* Fields without a tag, with a name tag, unexported, with a tag of a name
\* and an option, with the tag "-", with a tag of an option only.
FieldShapes ==
    {[name |-> <<"A">>, exported |-> TRUE, tag |-> <<>>],
     [name |-> <<"B">>, exported |-> TRUE, tag |-> <<"b">>],
     [name |-> <<"c">>, exported |-> FALSE, tag |-> <<>>],
     [name |-> <<"f">>, exported |-> FALSE, tag |-> <<"f">>],
     [name |-> <<"E">>, exported |-> TRUE,
      tag |-> <<"e", ",", "o", "m", "i", "t", "e", "m", "p", "t", "y">>],
     [name |-> <<"Z">>, exported |-> TRUE, tag |-> <<"-">>],
     [name |-> <<"T">>, exported |-> TRUE,
      tag |-> <<",", "o", "m", "i", "t", "e", "m", "p", "t", "y">>]}

FieldValues == {Num(1), Float("NaN")}

\* Structs of fields with distinct names, in every declaration order.
Structs ==
    LET Fields == {Field(f.name, f.exported, f.tag, x) :
                      f \in FieldShapes, x \in FieldValues}
    IN  {Struct(fs) : fs \in {gs \in SeqsUpTo(Fields, MaxFields) :
                                 \A i, j \in 1..Len(gs) :
                                     gs[i].name = gs[j].name => i = j}}

HostLevel1 ==
    HostScalars \cup ArraysOver(HostScalars, MaxHostLen)
    \cup {Map("string", <<[k |-> <<"a">>, v |-> x]>>) : x \in HostScalars}
    \cup {Obj(<<[k |-> <<"a">>, v |-> x], [k |-> <<"B">>, v |-> y]>>) :
             x, y \in HostScalars}
    \cup {Map("int", <<[k |-> <<"1">>, v |-> x]>>) : x \in HostScalars}
    \cup {Ptr(x) : x \in HostScalars}
    \cup Times \cup Structs

HostValues ==
    HostLevel1
    \cup {Arr(<<x>>) : x \in HostLevel1}
    \cup {Obj(<<[k |-> <<"a">>, v |-> x]>>) : x \in HostLevel1}
    \cup {Ptr(x) : x \in HostLevel1}

InitNorm ==
    /\ input \in HostValues
    /\ optArgs = <<>>
    /\ options = defaultOptions
    /\ pc = "start"
    /\ result = <<>>
    /\ outcome = "pending"
    /\ AuxIdle

CallNormalizeValue ==
    /\ pc = "start"
    /\ normalizedValue' = normalizeValue(input)
    /\ pc' = "normalized"
    /\ UNCHANGED <<input, optArgs, options, result, outcome, lineWriter,
                   pushes, calls, writers, history>>

NextNorm == CallNormalizeValue \/ Encode

SpecNorm == InitNorm /\ [][NextNorm]_vars

---------------------------------------------------------------------------
(* Encode called again and again by one caller.  history records the       *)
(* calls that have returned: the value, the options given and the outcome. *)
(* Between two calls the options value of the call before is garbage that  *)
(* no code refers to; the variable options keeps it until resolveOptions   *)
(* of the next call replaces it.                                           *)

MaxCalls == 3

SeqInputs ==
    { Obj(<<[k |-> <<"a">>, v |-> Arr(<<Num(1), Str(<<"a">>)>>)]>>),
      Obj(<<[k |-> <<"a">>, v |-> Obj(<<[k |-> <<"B">>, v |-> Num(1)]>>)]>>),
      Str(<<"|">>) }

SeqOptionLists ==
    { <<>>,
      <<WithLengthMarker>>,
      <<WithIndent(1), WithDelimiter(DelimiterPipe)>>,
      <<WithDelimiter(DelimiterPipe), WithDelimiter(DelimiterTab)>>,
      <<WithDelimiter(DelimiterTab), WithDelimiter(DelimiterComma)>>,
      <<WithIndent(1), WithIndent(0)>> }

InitSeq ==
    /\ input \in SeqInputs
    /\ optArgs \in SeqOptionLists
    /\ options = defaultOptions
    /\ pc = "start"
    /\ result = <<>>
    /\ outcome = "pending"
    /\ AuxIdle

\* The caller has the result of one call and makes the next one.
NextCall ==
    /\ pc = "done"
    /\ Len(history) < MaxCalls - 1
    /\ history' = Append(history, [input |-> input, optArgs |-> optArgs,
                                   result |-> result, outcome |-> outcome])
    /\ input' \in SeqInputs
    /\ optArgs' \in SeqOptionLists
    /\ pc' = "start"
    /\ result' = <<>>
    /\ outcome' = "pending"
    /\ UNCHANGED <<options, lineWriter, pushes, calls, writers,
                   normalizedValue>>

NextSeq == Encode \/ NextCall

SpecSeq == InitSeq /\ [][NextSeq]_vars

---------------------------------------------------------------------------
(* Encode on inline arrays and tables whose scalars and keys hold the      *)
(* delimiters, quotes and backslashes, in every position of an array.      *)

\* The most scalars of an inline array, and the most keys of a table.
MaxFieldCount == 2

FieldScalars ==
    {Null, Bool(TRUE), Num(12), Str(<<>>), Str(<<"a">>), Str(<<",">>),
     Str(<<"|">>), Str(<<"\t">>), Str(<<"a", ",", "b">>), Str(<<"\"", ",">>),
     Str(<<"\\", "|">>), Str(<<"\\", "\"", "\t">>)}

FieldKeys ==
    {<<"a">>, <<"a", ",", "b">>, <<"|">>, <<"\t">>, <<"\"", ",">>}

\* The values of the table cells.
CellScalars ==
    {Num(12), Str(<<"a", "|", "b">>), Str(<<"\"", ",", "\t">>)}

\* The same entries in the opposite order.
Reversed(obj) ==
    Obj([i \in 1..Len(obj.entries) |->
            obj.entries[Len(obj.entries) + 1 - i]])

\* Non-empty arrays of scalars.
InlineArrays ==
    {Arr(items) : items \in UNION {[1..n -> FieldScalars] : n \in 1..MaxFieldCount}}

\* Arrays of one object with one scalar value, and of an object with scalar
\* values twice, the second time with its entries in the opposite order.
Tables ==
    LET Rows == UNION {{Obj([i \in 1..n |-> [k |-> ks[i], v |-> vs[i]]]) :
                           ks \in InjSeqs(FieldKeys, n),
                           vs \in [1..n -> CellScalars]} :
                       n \in 1..MaxFieldCount}
    IN  {Arr(<<o>>) : o \in {r \in Rows : Len(r.entries) = 1}}
        \cup {Arr(<<o, Reversed(o)>>) : o \in Rows}

\* An array on its own, under a key, under a key that needs quotes, as the
\* first and as the second field of a list item, and (an inline array) as a
\* list item itself.
FieldInputs ==
    LET A == InlineArrays \cup Tables
    IN  A
        \cup {Obj(<<[k |-> <<"a">>, v |-> x]>>) : x \in A}
        \cup {Obj(<<[k |-> <<"a", ",", "|">>, v |-> x]>>) : x \in A}
        \cup {Arr(<<Obj(<<[k |-> <<"a">>, v |-> x]>>)>>) : x \in A}
        \cup {Arr(<<Obj(<<[k |-> <<"B">>, v |-> Num(1)],
                          [k |-> <<"a">>, v |-> x]>>)>>) : x \in A}
        \cup {Arr(<<x, x>>) : x \in InlineArrays}

InitFields ==
    /\ input \in FieldInputs
    /\ optArgs \in {<<WithDelimiter(d)>> : d \in Delimiters}
    /\ options = defaultOptions
    /\ pc = "start"
    /\ result = <<>>
    /\ outcome = "pending"
    /\ AuxIdle

SpecFields == InitFields /\ [][Next]_vars

---------------------------------------------------------------------------
(* encodePrimitive on its own, applied to one scalar and then to another   *)
(* under the same delimiter; history keeps the first call.                 *)

\* The longest string over the characters below.
MaxPrimLen == 2

PrimAlphabet == {"\\", "\"", "n", "\n", "1", ",", " "}

PrimWords ==
    {TrueLiteral, FalseLiteral, NullLiteral, <<"a">>, <<"4", "2">>,
     <<"-", "7">>, <<"0">>, <<"\"", "t", "r", "u", "e", "\"">>,
     <<"\"", "\"">>}

PrimInputs ==
    {Null, Bool(TRUE), Bool(FALSE)}
    \cup {Num(n) : n \in {-7, -1, 0, 1, 11, 42}}
    \cup {Str(s) : s \in SeqsUpTo(PrimAlphabet, MaxPrimLen) \cup PrimWords}

InitPrim ==
    /\ input \in PrimInputs
    /\ optArgs \in {<<WithDelimiter(d)>> : d \in Delimiters \cup {<<>>}}
    /\ options = defaultOptions
    /\ pc = "start"
    /\ result = <<>>
    /\ outcome = "pending"
    /\ AuxIdle

CallEncodePrimitive ==
    /\ pc = "start"
    /\ options' = resolveOptions(optArgs)
    /\ result' = encodePrimitive(input, options'.Delimiter)
    /\ pc' = "primitive"
    /\ UNCHANGED <<input, optArgs, outcome>>
    /\ UNCHANGED aux

\* The caller has one text and encodes another scalar.
NextPrimitive ==
    /\ pc = "primitive"
    /\ history = <<>>
    /\ history' = <<[input |-> input, optArgs |-> optArgs,
                     result |-> result, outcome |-> outcome]>>
    /\ input' \in PrimInputs
    /\ pc' = "start"
    /\ result' = <<>>
    /\ UNCHANGED <<optArgs, options, outcome, lineWriter, pushes, calls,
                   writers, normalizedValue>>

NextPrim == CallEncodePrimitive \/ NextPrimitive

SpecPrim == InitPrim /\ [][NextPrim]_vars

---------------------------------------------------------------------------
(* Encode with the LineWriter of encodeValue kept in lineWriter, on trees  *)
(* whose strings and keys are empty or hold line feeds.                    *)

\* The longest array and the most keys of an object of the trees below.
MaxLineItems == 2

LineScalars ==
    {Num(1), Str(<<>>), Str(<<"\n">>), Str(<<"a", "\n", "b">>)}

LineKeys == {<<>>, <<"a">>, <<"a", "\n">>}

LineLeaves == LineScalars \cup {Arr(<<>>), Obj(<<>>)}

\* Objects of at most MaxLineItems keys in every iteration order.
LineObjects ==
    UNION {{Obj([i \in 1..n |-> [k |-> ks[i], v |-> vs[i]]]) :
               ks \in InjSeqs(LineKeys, n), vs \in [1..n -> LineLeaves]} :
           n \in 0..MaxLineItems}

LineLevel1 == ArraysOver(LineLeaves, MaxLineItems) \cup LineObjects

LineInputs ==
    LineLeaves \cup LineLevel1
    \cup {Arr(<<x>>) : x \in LineLevel1}
    \cup {Obj(<<[k |-> k1, v |-> x]>>) : k1 \in LineKeys, x \in LineLevel1}

InitLines ==
    /\ input \in LineInputs
    /\ optArgs \in {<<WithDelimiter(d)>> : d \in Delimiters}
    /\ options = defaultOptions
    /\ pc = "start"
    /\ result = <<>>
    /\ outcome = "pending"
    /\ AuxIdle

\* The writer of encodeValue when it calls writer.String() (a scalar is
\* returned before the writer is made).
WriterAtReturn(value, opts) ==
    LET writer == NewLineWriter(opts.Indent)
    IN  IF isArray(value) THEN encodeArray(<<>>, value.items, writer, 0, opts)
        ELSE encodeObject(value, writer, 0, opts)

\* Encode with encodeValue written out: the result is the text of a scalar,
\* or writer.String() of the writer that lineWriter keeps.
EncodeLines ==
    /\ pc = "start"
    /\ LET normalized == normalizeValue(input)
           o == resolveOptions(optArgs)
       IN  /\ options' = o
           /\ o.Indent >= 0
           /\ lineWriter' = IF isPrimitive(normalized) THEN lineWriter
                            ELSE WriterAtReturn(normalized, o)
           /\ result' = IF isPrimitive(normalized)
                        THEN encodePrimitive(normalized, o.Delimiter)
                        ELSE String(lineWriter')
    /\ outcome' = "nil"
    /\ pc' = "done"
    /\ UNCHANGED <<input, optArgs, pushes, calls, writers, history,
                   normalizedValue>>

NextLines == EncodeLines

SpecLines == InitLines /\ [][NextLines]_vars

---------------------------------------------------------------------------
(* Properties of the scalar encoder (SpecStr).                             *)

\* The unescape rule, scanned left to right.
UnescapeChar(c) ==
    CASE c = "n" -> "\n"
      [] c = "r" -> "\r"
      [] c = "t" -> "\t"
      [] OTHER   -> c

RECURSIVE Unescape(_)
Unescape(e) ==
    IF e = <<>> THEN <<>>
    ELSE IF e[1] = "\\" /\ Len(e) >= 2
         THEN <<UnescapeChar(e[2])>> \o Unescape(SubSeq(e, 3, Len(e)))
         ELSE <<e[1]>> \o Unescape(Tail(e))

\* Scanned left to right, every backslash starts a two-character escape and
\* no double quote stands outside one.
RECURSIVE QuotesEscaped(_)
QuotesEscaped(e) ==
    IF e = <<>> THEN TRUE
    ELSE IF e[1] = "\\"
         THEN Len(e) >= 2 /\ QuotesEscaped(SubSeq(e, 3, Len(e)))
         ELSE e[1] # "\"" /\ QuotesEscaped(Tail(e))

\* s[i..j] is a non-empty run of digits.
AllDigits(s, i, j) == i <= j /\ \A k \in i..j : s[k] \in Digit

\* optional '-', digits, optional fraction, optional exponent
NumberForm(s) ==
    \E p \in 0..1 : \E q \in (p + 1)..Len(s) : \E r \in q..Len(s) :
        /\ p = 1 => s[1] = "-"
        /\ AllDigits(s, p + 1, q)
        /\ r = q \/ (q + 2 <= r /\ s[q + 1] = "." /\ AllDigits(s, q + 2, r))
        /\ \/ r = Len(s)
           \/ /\ r + 2 <= Len(s)
              /\ s[r + 1] \in {"e", "E"}
              /\ \E g \in 0..1 :
                    /\ g = 1 => s[r + 2] \in {"+", "-"}
                    /\ AllDigits(s, r + 2 + g, Len(s))

\* a leading-zero integer
LeadingZeroForm(s) == Len(s) >= 2 /\ s[1] = "0" /\ AllDigits(s, 2, Len(s))

\* The conditions under which a string is quoted.
NeedsQuotes(s, d) ==
    \/ s = <<>>
    \/ s[1] \in WhiteSpace \/ s[Len(s)] \in WhiteSpace
    \/ s \in {<<"t", "r", "u", "e">>, <<"f", "a", "l", "s", "e">>,
              <<"n", "u", "l", "l">>}
    \/ NumberForm(s) \/ LeadingZeroForm(s)
    \/ \E i \in 1..Len(s) :
          s[i] \in {":", "\"", "\\", "[", "]", "{", "}", "\n", "\r", "\t"}
    \/ \E i \in 1..(Len(s) - Len(d) + 1) : SubSeq(s, i, i + Len(d) - 1) = d
    \/ s[1] = "-"

\* C6: encodeStringLiteral(s, delimiter) returns s verbatim iff s is not
\* empty, has no leading or trailing whitespace, is not true, false or null,
\* is not numeric-looking, contains none of : " \ [ ] { } LF CR TAB, does not
\* contain the active delimiter and does not start with '-'; otherwise it
\* returns s escaped (so that unescaping gives s back) in double quotes.
C6_QuotedIffUnsafe ==
    pc = "encoded" =>
        IF NeedsQuotes(input.s, options.Delimiter)
        THEN /\ Len(result) >= 2
             /\ result[1] = "\"" /\ result[Len(result)] = "\""
             /\ Unescape(SubSeq(result, 2, Len(result) - 1)) = input.s
             /\ QuotesEscaped(SubSeq(result, 2, Len(result) - 1))
        ELSE result = input.s

\* A string quoted only because it starts with '-', and the quoted result.
C6_Witness ==
    /\ pc = "encoded"
    /\ input.s = <<"-", "a">>
    /\ options.Delimiter = DelimiterPipe
    /\ result = <<"\"", "-", "a", "\"">>

\* C7: unescaping escapeString(s) gives s back, and escapeString(s) holds no
\* raw LF, CR or TAB and no double quote outside an escape.
C7_EscapeRoundTrip ==
    pc = "escaped" =>
        /\ Unescape(result) = input.s
        /\ \A i \in 1..Len(result) : result[i] \notin {"\n", "\r", "\t"}
        /\ QuotesEscaped(result)

\* A string with a backslash before an n, a quote and a line feed, escaped.
C7_Witness ==
    /\ pc = "escaped"
    /\ input.s = <<"\\", "n", "\"", "\n">>
    /\ result = <<"\\", "\\", "n", "\\", "\"", "\\", "n">>

---------------------------------------------------------------------------
(* Reading the output text back: lines, indentation, fields.               *)

\* The pieces of text between occurrences of the character sep.
RECURSIVE SplitOn(_, _)
SplitOn(text, sep) ==
    IF \A i \in 1..Len(text) : text[i] # sep THEN <<text>>
    ELSE LET i == CHOOSE n \in 1..Len(text) :
                      text[n] = sep /\ \A m \in 1..(n - 1) : text[m] # sep
         IN  <<SubSeq(text, 1, i - 1)>>
             \o SplitOn(SubSeq(text, i + 1, Len(text)), sep)

\* The lines of the result text.
ResultLines == SplitOn(result, "\n")

\* The number of leading spaces of a line.
RECURSIVE Indentation(_)
Indentation(line) ==
    IF line # <<>> /\ line[1] = " " THEN 1 + Indentation(Tail(line)) ELSE 0

\* The line without its leading spaces.
Content(line) == SubSeq(line, Indentation(line) + 1, Len(line))

\* The indentation of a line pushed at the given depth.
IndentOf(depth) == [i \in 1..(options.Indent * depth) |-> " "]

\* The index of the first occurrence of the character c in text (0 if none).
IndexOf(text, c) ==
    IF \E i \in 1..Len(text) : text[i] = c
    THEN CHOOSE i \in 1..Len(text) :
             text[i] = c /\ \A m \in 1..(i - 1) : text[m] # c
    ELSE 0

\* The field names between the braces of a header line (<<>> without braces).
HeaderFields(line) ==
    LET i == IndexOf(line, "{")
        j == IndexOf(line, "}")
    IN  IF i = 0 \/ j < i THEN <<>>
        ELSE SplitOn(SubSeq(line, i + 1, j - 1), options.Delimiter[1])

IsScalar(v) == v.t \in {"null", "bool", "num", "str"}

KeySet(obj) == {obj.entries[i].k : i \in 1..Len(obj.entries)}

ValueAt(obj, key) ==
    LET e == CHOOSE x \in {obj.entries[i] : i \in 1..Len(obj.entries)} :
                 x.k = key
    IN  e.v

\* a comes strictly before b in byte-wise lexicographic order.
KeyBefore(a, b) ==
    \E i \in 1..Len(b) :
        /\ i <= Len(a) + 1
        /\ \A j \in 1..(i - 1) : a[j] = b[j]
        /\ i = Len(a) + 1 \/ Ord(a[i]) < Ord(b[i])

\* The least key of a non-empty object.
MinKey(obj) ==
    CHOOSE k \in KeySet(obj) : \A k2 \in KeySet(obj) \ {k} : KeyBefore(k, k2)

\* The entries in ascending key order.
AscendingEntries(entries) ==
    LET n == Len(entries)
        Perms == {f \in [1..n -> 1..n] : \A i, j \in 1..n : f[i] = f[j] => i = j}
        f == CHOOSE g \in Perms :
                 \A i \in 1..(n - 1) :
                     KeyBefore(entries[g[i]].k, entries[g[i + 1]].k)
    IN  [i \in 1..n |-> entries[f[i]]]

\* The same value with every object's entries in ascending key order: all
\* maps with the same contents have one canonical form.
RECURSIVE Canonical(_)
Canonical(v) ==
    CASE v.t = "arr" ->
            Arr([i \in 1..Len(v.items) |-> Canonical(v.items[i])])
      [] v.t = "obj" ->
            Obj(AscendingEntries(
                    [i \in 1..Len(v.entries) |->
                        [k |-> v.entries[i].k,
                         v |-> Canonical(v.entries[i].v)]]))
      [] OTHER -> v

\* The text of a header "[N]:" without key and fields, under the options.
PlainHeader(n) ==
    <<"[">> \o (IF options.LengthMarker THEN <<"#">> ELSE <<>>)
    \o FormatNat(n)
    \o (IF options.Delimiter = <<",">> THEN <<>> ELSE options.Delimiter)
    \o <<"]", ":">>

\* The array Encode passes to encodeArray at depth 0, and its key: the input
\* itself, or the value of the only key of the input.
TopArrayCase ==
    \/ input.t = "arr"
    \/ input.t = "obj" /\ Len(input.entries) = 1 /\ input.entries[1].v.t = "arr"

TopArray == IF input.t = "arr" THEN input.items ELSE input.entries[1].v.items

TopKey == IF input.t = "arr" THEN <<>> ELSE input.entries[1].k

---------------------------------------------------------------------------
(* Properties of Encode (Spec).                                            *)

UniformScalarObjects(arr) ==
    /\ Len(arr) > 0
    /\ \A i \in 1..Len(arr) :
          /\ arr[i].t = "obj"
          /\ KeySet(arr[i]) = KeySet(arr[1])
          /\ \A k \in KeySet(arr[i]) : IsScalar(ValueAt(arr[i], k))

\* The output is the tabular form of the top array: a header with as many
\* fields as the objects have keys, then one row per object at depth 1, each
\* the object's values in the order of the header's fields.
TabularForm ==
    LET lines == ResultLines
        fields == HeaderFields(lines[1])
        d == options.Delimiter
    IN  /\ Len(lines) = 1 + Len(TopArray)
        /\ HasPrefix(lines[1], TopKey \o <<"[">>)
        /\ Len(fields) = Cardinality(KeySet(TopArray[1]))
        /\ {fields[j] : j \in 1..Len(fields)} = KeySet(TopArray[1])
        /\ \A i \in 1..Len(TopArray) :
              lines[i + 1] =
                  IndentOf(1)
                  \o Join([j \in 1..Len(fields) |->
                              encodePrimitive(ValueAt(TopArray[i], fields[j]), d)],
                          d)

\* C2 as stated: every array of objects with identical key sets and scalar
\* field values renders in the tabular form.
C2_AsStated ==
    (pc = "done" /\ TopArrayCase /\ UniformScalarObjects(TopArray))
        => TabularForm

\* C2: every array of objects with identical, non-empty key sets and scalar
\* field values renders in the tabular form: header field count = key count,
\* one row per object one depth deeper, values in the header's field order.
C2_TabularForm ==
    (/\ pc = "done" /\ TopArrayCase /\ UniformScalarObjects(TopArray)
     /\ KeySet(TopArray[1]) # {})
        => TabularForm

\* Two objects whose entries come in different orders, as one table.
C2_Witness ==
    /\ pc = "done"
    /\ input = Arr(<<Obj(<<[k |-> <<"a">>, v |-> Num(1)], [k |-> <<"B">>, v |-> Str(<<"a">>)]>>),
                     Obj(<<[k |-> <<"B">>, v |-> Num(1)], [k |-> <<"a">>, v |-> Str(<<"a">>)]>>)>>)
    /\ options.Delimiter = DelimiterPipe /\ ~options.LengthMarker
    /\ ResultLines = << <<"[", "2", "|", "]", "{", "B", "|", "a", "}", ":">>,
                        <<" ", " ", "a", "|", "1">>,
                        <<" ", " ", "1", "|", "a">> >>

\* All elements are objects, and some key set differs from the first or some
\* field value is an array or an object.
NonUniformObjects(arr) ==
    /\ Len(arr) > 0
    /\ \A i \in 1..Len(arr) : arr[i].t = "obj"
    /\ \E i \in 1..Len(arr) :
          \/ KeySet(arr[i]) # KeySet(arr[1])
          \/ \E k \in KeySet(arr[i]) : ~IsScalar(ValueAt(arr[i], k))

\* C5: an all-object array with differing key sets or a non-scalar field
\* value is not tabular: its header has no field list, and it is followed by
\* one bullet-object per element (the lines at depth 1), in array order, each
\* bullet fused with the element's least key.
C5_ListOfBulletObjects ==
    (pc = "done" /\ TopArrayCase /\ NonUniformObjects(TopArray)) =>
        LET lines == ResultLines
            bullets == SelectSeq(Tail(lines),
                           LAMBDA l : Indentation(l) = options.Indent)
        IN  /\ lines[1] = TopKey \o PlainHeader(Len(TopArray))
            /\ \A n \in 2..Len(lines) : Indentation(lines[n]) >= options.Indent
            /\ Len(bullets) = Len(TopArray)
            /\ \A i \in 1..Len(bullets) :
                  IF TopArray[i].entries = <<>>
                  THEN Content(bullets[i]) = <<"-">>
                  ELSE HasPrefix(Content(bullets[i]),
                                 <<"-", " ">> \o MinKey(TopArray[i]))

\* Objects with different single keys, as two bullets in array order.
C5_Witness ==
    /\ pc = "done"
    /\ input = Arr(<<Obj(<<[k |-> <<"a">>, v |-> Num(1)]>>),
                     Obj(<<[k |-> <<"B">>, v |-> Num(1)]>>)>>)
    /\ options = defaultOptions
    /\ ResultLines = << <<"[", "2", "]", ":">>,
                        <<" ", " ", "-", " ", "a", ":", " ", "1">>,
                        <<" ", " ", "-", " ", "B", ":", " ", "1">> >>

\* The top array is rendered as a list of items: it is not empty, not all
\* scalars, not all arrays of scalars, and not a table.
ListOfItemsCase(arr) ==
    /\ Len(arr) > 0
    /\ \E i \in 1..Len(arr) : ~IsScalar(arr[i])
    /\ \E i \in 1..Len(arr) :
          \/ arr[i].t # "arr"
          \/ \E j \in 1..Len(arr[i].items) : ~IsScalar(arr[i].items[j])
    /\ ~(UniformScalarObjects(arr) /\ KeySet(arr[1]) # {})

\* C3: in the list-of-items rendering every element produces output beneath
\* the header, so the number of items under the header (the lines at depth 1)
\* equals the N of the header.
C3_EveryItemRendered ==
    (pc = "done" /\ input.t = "arr" /\ ListOfItemsCase(input.items)) =>
        LET lines == ResultLines
            items == SelectSeq(Tail(lines),
                         LAMBDA l : Indentation(l) = options.Indent)
        IN  /\ lines[1] = PlainHeader(Len(input.items))
            /\ Len(items) = Len(input.items)

\* A line with a bracket is an array header (no key or scalar of the inputs
\* holds one).  Its bracket holds '#' iff lengthMarker is set, then the
\* count, then the delimiter iff it is not ','; a field list is joined by the
\* delimiter.
HeaderGrammar(line) ==
    LET i == IndexOf(line, "[")
        j == IndexOf(line, "]")
        inner == SubSeq(line, i + 1, j - 1)
        marked == inner # <<>> /\ inner[1] = "#"
        rest == IF marked THEN Tail(inner) ELSE inner
        delimited == rest # <<>> /\ rest[Len(rest)] = options.Delimiter[1]
        count == IF delimited THEN SubSeq(rest, 1, Len(rest) - 1) ELSE rest
        tail == SubSeq(line, j + 1, Len(line))
        b == IndexOf(tail, "}")
    IN  /\ i < j
        /\ marked <=> options.LengthMarker
        /\ delimited <=> options.Delimiter # <<",">>
        /\ AllDigits(count, 1, Len(count))
        /\ IF tail[1] = "{"
           THEN /\ b > 2
                /\ \A n \in 2..(b - 1) :
                      IsWord(tail[n]) \/ tail[n] = options.Delimiter[1]
                /\ tail[b + 1] = ":"
           ELSE tail[1] = ":"

\* C4: every array header line, in every position, follows the one header
\* grammar.
C4_OneHeaderGrammar ==
    pc = "done" =>
        \A n \in 1..Len(ResultLines) :
            IndexOf(ResultLines[n], "[") > 0 => HeaderGrammar(ResultLines[n])

\* A value of which every rendering is one line: a scalar, an empty array or
\* an empty object.
Flat(v) ==
    \/ IsScalar(v)
    \/ v.t = "arr" /\ v.items = <<>>
    \/ v.t = "obj" /\ v.entries = <<>>

EmptyArray == Arr(<<>>)

C10_InlineArray ==
    (/\ pc = "done" /\ TopArrayCase /\ Len(TopArray) > 0
     /\ \A i \in 1..Len(TopArray) : IsScalar(TopArray[i])) =>
        LET d == options.Delimiter
            body == SubSeq(result, Len(TopKey \o PlainHeader(Len(TopArray))) + 2,
                           Len(result))
            enc == [i \in 1..Len(TopArray) |-> encodePrimitive(TopArray[i], d)]
            \* where the i-th encoding starts in the body
            start == [i \in 1..Len(TopArray) |->
                         1 + Len(Join(SubSeq(enc, 1, i - 1), <<>>))
                           + (i - 1) * Len(d)]
        IN  /\ Len(ResultLines) = 1
            /\ HasPrefix(result, TopKey \o PlainHeader(Len(TopArray)) \o <<" ">>)
            /\ Len(body) = start[Len(TopArray)] + Len(enc[Len(TopArray)]) - 1
            /\ \A i \in 1..Len(TopArray) :
                  /\ SubSeq(body, start[i], start[i] + Len(enc[i]) - 1) = enc[i]
                  /\ i > 1 => SubSeq(body, start[i] - Len(d), start[i] - 1) = d

\* A string holding the pipe is quoted between pipes and bare between tabs.
C10_Witness ==
    /\ pc = "done"
    /\ input = Arr(<<Str(<<"a", "|", "b">>), Num(12)>>)
    /\ options.Delimiter = DelimiterTab /\ ~options.LengthMarker
    /\ result = <<"[", "2", "\t", "]", ":", " ", "a", "|", "b", "\t", "1", "2">>

\* C8: Encode has no failure outcome: every call returns a text and a nil
\* error, whatever the delimiter string and the indent.
C8_NeverFails == pc = "done" => outcome = "nil"

---------------------------------------------------------------------------
(* Properties of keys (SpecKey).                                           *)

\* The letters of the model's characters.
KeyLetters ==
    {"A", "B", "E", "T", "Z", "a", "b", "c", "e", "f", "i", "l", "m", "n", "o",
     "p", "r", "s", "t", "u", "y", "z"}

\* ^[A-Za-z_][A-Za-z0-9_.]*$
ValidKeyForm(k) ==
    /\ k # <<>>
    /\ k[1] \in KeyLetters \cup {"_"}
    /\ \A i \in 2..Len(k) : k[i] \in KeyLetters \cup Digit \cup {"_", "."}

\* The text of a key: bare if it has the form, else escaped as a string value
\* is and put in double quotes.
KeyText(k) ==
    IF ValidKeyForm(k) THEN k ELSE <<"\"">> \o escapeString(k) \o <<"\"">>

\* The value is an object with one key.
OneKeyObject(v) == v.t = "obj" /\ Len(v.entries) = 1

\* C11: a key is emitted bare iff it matches ^[A-Za-z_][A-Za-z0-9_.]*$ and
\* otherwise in double quotes, escaped as string values are, whatever the
\* delimiter: as an object key before a scalar or an object, as the key prefix
\* of an array header, as a field name of a tabular header, and fused with a
\* bullet.
C11_KeyQuotedIffNotPlain ==
    pc = "done" =>
        /\ OneKeyObject(input) =>
              LET k == input.entries[1].k
                  v == input.entries[1].v
              IN  CASE IsScalar(v) ->
                          result = KeyText(k) \o <<":", " ">>
                                   \o encodePrimitive(v, options.Delimiter)
                    [] v.t = "arr" ->
                          HasPrefix(ResultLines[1], KeyText(k) \o <<"[">>)
                    [] v.t = "obj" ->
                          ResultLines[1] = KeyText(k) \o <<":">>
        /\ (/\ input.t = "arr" /\ Len(input.items) = 1
            /\ OneKeyObject(input.items[1])) =>
              LET k == input.items[1].entries[1].k
                  v == input.items[1].entries[1].v
                  d == IF options.Delimiter = <<",">> THEN <<>>
                       ELSE options.Delimiter
                  m == IF options.LengthMarker THEN <<"#">> ELSE <<>>
              IN  CASE IsScalar(v) ->
                          ResultLines[1] = <<"[">> \o m \o <<"1">> \o d
                                           \o <<"]", "{">> \o KeyText(k)
                                           \o <<"}", ":">>
                    [] v.t = "arr" ->
                          HasPrefix(ResultLines[2],
                                    IndentOf(1) \o <<"-", " ">> \o KeyText(k)
                                    \o <<"[">>)
                    [] v.t = "obj" ->
                          ResultLines[2] = IndentOf(1) \o <<"-", " ">>
                                           \o KeyText(k) \o <<":">>

---------------------------------------------------------------------------
(* Properties of the layout of objects (Spec).                             *)

\* The lines of an ordinary key/value entry at a depth.
EntryLines(k, v, depth) ==
    encodeKeyValuePair(k, v, NewLineWriter(options.Indent), depth, options).lines

\* The lines of an object's entries at a depth.
BodyLines(obj, depth) ==
    encodeObject(obj, NewLineWriter(options.Indent), depth, options).lines

\* The keys of an object in ascending order.
AscendingKeys(obj) ==
    LET e == AscendingEntries(obj.entries) IN [i \in 1..Len(e) |-> e[i].k]

RECURSIVE Concat(_)
Concat(seqs) == IF seqs = <<>> THEN <<>> ELSE seqs[1] \o Concat(Tail(seqs))

\* The positions of the lines at exactly the given depth, in order.
LinesAtDepth(lines, depth) ==
    SelectSeq([n \in 1..Len(lines) |-> n],
              LAMBDA n : Indentation(lines[n]) = options.Indent * depth)

\* The i-th block of lines: from the i-th line at the depth up to the next.
Block(lines, depth, i) ==
    LET at == LinesAtDepth(lines, depth)
    IN  SubSeq(lines, at[i],
               IF i < Len(at) THEN at[i + 1] - 1 ELSE Len(lines))

\* The layout of the object o as a list item at bullet depth d, in the lines
\* of block.
BulletObjectLayout(o, d, block) ==
    IF o.entries = <<>> THEN block = <<IndentOf(d) \o <<"-">>>>
    ELSE
    LET ks == AscendingKeys(o)
        v1 == ValueAt(o, ks[1])
        head == IndentOf(d) \o <<"-", " ">> \o KeyText(ks[1])
        rest == Concat([i \in 1..(Len(ks) - 1) |->
                           EntryLines(ks[i + 1], ValueAt(o, ks[i + 1]), d + 1)])
        middle == SubSeq(block, 2, Len(block) - Len(rest))
    IN  CASE IsScalar(v1) ->
                block = <<head \o <<":", " ">>
                          \o encodePrimitive(v1, options.Delimiter)>> \o rest
          [] v1.t = "obj" ->
                block = <<head \o <<":">>>>
                        \o (IF v1.entries = <<>> THEN <<>>
                            ELSE BodyLines(v1, d + 2))
                        \o rest
          [] v1.t = "arr" ->
                /\ HasPrefix(block[1], head \o <<"[">>)
                /\ Len(block) >= 1 + Len(rest)
                /\ SubSeq(block, Len(block) - Len(rest) + 1, Len(block)) = rest
                /\ \A n \in 1..Len(middle) :
                      Indentation(middle[n]) >= options.Indent * (d + 1)
                /\ (UniformScalarObjects(v1.items) /\ KeySet(v1.items[1]) # {})
                      => LET fs == AscendingKeys(v1.items[1])
                         IN  middle =
                               [n \in 1..Len(v1.items) |->
                                  IndentOf(d + 1)
                                  \o Join([j \in 1..Len(fs) |->
                                             encodePrimitive(
                                                 ValueAt(v1.items[n], fs[j]),
                                                 options.Delimiter)],
                                          options.Delimiter)]

\* The input is an array under two nested keys.
DeepArrayCase ==
    /\ OneKeyObject(input)
    /\ OneKeyObject(input.entries[1].v)
    /\ input.entries[1].v.entries[1].v.t = "arr"

\* The array whose items are looked at, and the depth of its header line.
HostArray ==
    IF DeepArrayCase THEN input.entries[1].v.entries[1].v.items
    ELSE input.items

HostDepth == IF DeepArrayCase THEN 1 ELSE 0

\* The input holds an array of objects rendered as a list of items.
ListOfObjectsCase ==
    /\ input.t = "arr" \/ DeepArrayCase
    /\ ListOfItemsCase(HostArray)
    /\ \A i \in 1..Len(HostArray) : HostArray[i].t = "obj"

\* C12: an object rendered as a list item at bullet depth d is the single
\* line "-" when it has no keys; otherwise its least key is fused with the
\* bullet on the line at depth d ("- key: scalar", "- key[", "- key:"), the
\* body of a non-empty object under the first key is at depth d + 2, the rows
\* of a tabular first-key array are at depth d + 1, and every remaining key,
\* in ascending order, is rendered as an ordinary key/value entry at depth
\* d + 1.
C12_BulletObjectLayout ==
    (pc = "done" /\ ListOfObjectsCase) =>
        LET lines == SubSeq(ResultLines, HostDepth + 2, Len(ResultLines))
            d == HostDepth + 1
        IN  /\ Len(LinesAtDepth(lines, d)) = Len(HostArray)
            /\ \A i \in 1..Len(HostArray) :
                  BulletObjectLayout(HostArray[i], d, Block(lines, d, i))

\* A bullet-object whose first key holds a non-empty object and whose second
\* key holds a scalar: the body two levels under the bullet, the rest one.
C12_Witness ==
    /\ pc = "done"
    /\ input = Arr(<<Obj(<<[k |-> <<"a">>, v |-> Num(1)],
                           [k |-> <<"B">>,
                            v |-> Obj(<<[k |-> <<"a">>, v |-> Num(1)]>>)]>>)>>)
    /\ options = defaultOptions
    /\ ResultLines = << <<"[", "1", "]", ":">>,
                        <<" ", " ", "-", " ", "B", ":">>,
                        <<" ", " ", " ", " ", " ", " ", "a", ":", " ", "1">>,
                        <<" ", " ", " ", " ", "a", ":", " ", "1">> >>

\* The same list item one level deeper, with an indent of one space.
C12_DeepWitness ==
    /\ pc = "done"
    /\ DeepArrayCase /\ ListOfObjectsCase
    /\ options.Indent = 1
    /\ ResultLines = << <<"a", ":">>,
                        <<" ", "B", "[", "1", "]", ":">>,
                        <<" ", " ", "-", " ", "B", ":">>,
                        <<" ", " ", " ", " ", "a", ":", " ", "1">>,
                        <<" ", " ", " ", "a", ":", " ", "1">> >>

---------------------------------------------------------------------------
(* Properties of the LineWriter (SpecWriter).                              *)

Spaces(n) == [i \in 1..n |-> " "]

\* The stored (depth, text) pairs rendered once at the end: each text after
\* w * depth spaces, the lines joined by a line feed.
RECURSIVE RenderPairs(_, _)
RenderPairs(w, pairs) ==
    IF pairs = <<>> THEN <<>>
    ELSE LET line == Spaces(w * pairs[1].depth) \o pairs[1].text
         IN  IF Len(pairs) = 1 THEN line
             ELSE line \o <<"\n">> \o RenderPairs(w, Tail(pairs))

\* C13: after any sequence of Push(depth, text) calls on a LineWriter of
\* indent width w, the writer holds one line per push, in push order, each
\* the text after exactly w * depth spaces (so a Push appends one line and
\* leaves the earlier lines as they were), and String() is the stored pairs
\* rendered once: those lines joined by a line feed, with no line feed after
\* the last line.
C13_WriterRendersPairs ==
    pc \in {"writer", "rendered"} =>
        /\ Len(lineWriter.lines) = Len(pushes)
        /\ \A i \in 1..Len(pushes) :
              lineWriter.lines[i] =
                  Spaces(options.Indent * pushes[i].depth) \o pushes[i].text
        /\ pc = "rendered" =>
              /\ result = RenderPairs(options.Indent, pushes)
              /\ (pushes # <<>> /\ pushes[Len(pushes)].text # <<>>)
                    => result[Len(result)] # "\n"

\* Three pushes at depths 0, 3 and 1 with an indent of two, rendered.
C13_Witness ==
    /\ pc = "rendered"
    /\ options.Indent = 2
    /\ pushes = <<[depth |-> 0, text |-> <<"a">>],
                  [depth |-> 3, text |-> <<"-", " ", "a">>],
                  [depth |-> 1, text |-> <<"a">>]>>
    /\ result = <<"a", "\n", " ", " ", " ", " ", " ", " ", "-", " ", "a", "\n",
                  " ", " ", "a">>

---------------------------------------------------------------------------
(* Properties of concurrent calls (SpecConc).                              *)

\* C14: under every interleaving of the steps of concurrent Encode calls,
\* each call that has returned has returned the text Encode gives for its
\* value and its options when run alone.
C14_ConcurrentCallsIndependent ==
    \A c \in CallIds :
        calls[c].pc = "done" =>
            calls[c].result = encodeValue(normalizeValue(calls[c].input),
                                          resolveOptions(calls[c].optArgs))

\* Two calls with different options, both returned, each having taken steps
\* while the other was in flight.
C14_Witness ==
    /\ \A c \in CallIds : calls[c].pc = "done" /\ calls[c].overlapped
    /\ calls[1].optArgs = <<WithIndent(1)>>
    /\ calls[2].optArgs = <<WithDelimiter(DelimiterPipe), WithLengthMarker>>
    /\ calls[1].result = <<"a", ":", "\n", " ", "B", ":", " ", "1">>
    /\ calls[2].result = <<"[", "#", "2", "|", "]", ":", " ", "1", "|", "a">>

---------------------------------------------------------------------------
(* Properties of normalizeValue (SpecNorm).                                *)

\* A value of the Value Model at every level: nil, bool, float64, string,
\* []interface{} of such values, map[string]interface{} of such values.
RECURSIVE InValueModel(_)
InValueModel(v) ==
    CASE v.t = "null" -> DOMAIN v = {"t"}
      [] v.t = "bool" -> DOMAIN v = {"t", "b"} /\ v.b \in BOOLEAN
      [] v.t = "num"  -> DOMAIN v = {"t", "n"} /\ v.n \in Int
      [] v.t = "str"  -> DOMAIN v = {"t", "s"} /\ DOMAIN v.s = 1..Len(v.s)
      [] v.t = "arr"  ->
            /\ DOMAIN v = {"t", "items"}
            /\ \A i \in 1..Len(v.items) : InValueModel(v.items[i])
      [] v.t = "obj"  ->
            /\ DOMAIN v = {"t", "entries"}
            /\ \A i \in 1..Len(v.entries) :
                  /\ DOMAIN v.entries[i].k = 1..Len(v.entries[i].k)
                  /\ InValueModel(v.entries[i].v)
                  /\ \A j \in 1..Len(v.entries) :
                        v.entries[i].k = v.entries[j].k => i = j
      [] OTHER        -> FALSE

\* C15: normalizeValue returns a value of the Value Model at every level:
\* NaN and the infinities become Null, negative zero becomes zero, a map
\* whose key type is not string becomes Null, a nil pointer and a value of an
\* unsupported kind (function, channel) become Null, the integer kinds become
\* Number, and every element of a slice and every value of a string-keyed map
\* is normalized in its place.
C15_NormalizedInModel ==
    pc = "normalized" =>
        /\ InValueModel(normalizedValue)
        /\ input.t = "float" =>
              normalizedValue = (IF input.f = "-0" THEN Num(0) ELSE Null)
        /\ (input.t = "map" /\ input.keyKind # "string") => normalizedValue = Null
        /\ (input.t = "ptr" /\ input.isNil) => normalizedValue = Null
        /\ input.t \in {"func", "chan"} => normalizedValue = Null
        /\ input.t \in {"int", "uint"} => normalizedValue = Num(input.n)
        /\ input.t \in {"null", "bool", "num", "str"} => normalizedValue = input
        /\ input.t = "arr" =>
              /\ normalizedValue.t = "arr"
              /\ Len(normalizedValue.items) = Len(input.items)
              /\ \A i \in 1..Len(input.items) :
                    normalizedValue.items[i] = normalizeValue(input.items[i])
        /\ (input.t = "obj" \/ (input.t = "map" /\ input.keyKind = "string")) =>
              /\ normalizedValue.t = "obj"
              /\ KeySet(normalizedValue) = KeySet(input)
              /\ \A k \in KeySet(input) :
                    ValueAt(normalizedValue, k) = normalizeValue(ValueAt(input, k))

\* A map whose values are NaN and negative zero, normalized.
C15_Witness ==
    /\ pc = "normalized"
    /\ input = Obj(<<[k |-> <<"a">>, v |-> Float("NaN")],
                     [k |-> <<"B">>, v |-> Float("-0")]>>)
    /\ normalizedValue = Obj(<<[k |-> <<"a">>, v |-> Null],
                               [k |-> <<"B">>, v |-> Num(0)]>>)

\* Reading a timestamp text back.
DigitVal(c) == Ord(c) - Ord("0")

RECURSIVE NatOf(_)
NatOf(digits) ==
    IF digits = <<>> THEN 0
    ELSE 10 * NatOf(SubSeq(digits, 1, Len(digits) - 1))
         + DigitVal(digits[Len(digits)])

\* The length of the zone at the end of the text: "Z" or "+hh:mm".
ZoneLen(s) == IF s[Len(s)] = "Z" THEN 1 ELSE 6

\* The digits after the point (none without a point).
FractionDigits(s) ==
    IF Len(s) - ZoneLen(s) > 19 THEN SubSeq(s, 21, Len(s) - ZoneLen(s))
    ELSE <<>>

\* "2025-01-DDThh:mm:ss", an optional point with one to nine digits not
\* ending in zero, then "Z" or a signed "hh:mm".
RFC3339Shape(s) ==
    /\ Len(s) >= 20
    /\ SubSeq(s, 1, 8) = <<"2", "0", "2", "5", "-", "0", "1", "-">>
    /\ s[11] = "T" /\ s[14] = ":" /\ s[17] = ":"
    /\ \A i \in {9, 10, 12, 13, 15, 16, 18, 19} : s[i] \in Digit
    /\ NatOf(SubSeq(s, 12, 13)) < 24
    /\ NatOf(SubSeq(s, 15, 16)) < 60
    /\ NatOf(SubSeq(s, 18, 19)) < 60
    /\ LET z == SubSeq(s, Len(s) - ZoneLen(s) + 1, Len(s))
           f == FractionDigits(s)
       IN  /\ \/ z = <<"Z">>
              \/ /\ z[1] \in {"+", "-"} /\ z[4] = ":"
                 /\ \A i \in {2, 3, 5, 6} : z[i] \in Digit
           /\ Len(s) - ZoneLen(s) > 19 =>
                 /\ s[20] = "."
                 /\ Len(f) \in 1..9
                 /\ \A i \in 1..Len(f) : f[i] \in Digit
                 /\ f[Len(f)] # "0"

\* The zone of the text in seconds east of UTC.
ParsedOffset(s) ==
    IF s[Len(s)] = "Z" THEN 0
    ELSE LET z == SubSeq(s, Len(s) - 5, Len(s))
             seconds == 3600 * NatOf(SubSeq(z, 2, 3)) + 60 * NatOf(SubSeq(z, 5, 6))
         IN  IF z[1] = "-" THEN -seconds ELSE seconds

\* The date and clock of the text in seconds from 2025-01-15T00:00:00.
ParsedLocal(s) ==
    86400 * (NatOf(SubSeq(s, 9, 10)) - 15) + 3600 * NatOf(SubSeq(s, 12, 13))
    + 60 * NatOf(SubSeq(s, 15, 16)) + NatOf(SubSeq(s, 18, 19))

\* The fraction of the text in nanoseconds.
ParsedNanos(s) ==
    LET f == FractionDigits(s)
    IN  NatOf(f \o [i \in 1..(9 - Len(f)) |-> "0"])

TagName(tag) ==
    IF IndexOf(tag, ",") = 0 THEN tag
    ELSE SubSeq(tag, 1, IndexOf(tag, ",") - 1)

\* The declared external name of a field: the name of its json tag, or the
\* Go field name when there is no tag, the tag is "-" or it gives no name.
DeclaredName(field) ==
    IF field.tag = <<>> \/ field.tag = <<"-">> \/ TagName(field.tag) = <<>>
    THEN field.name
    ELSE TagName(field.tag)

ExportedFields(struct) ==
    {struct.fields[i] : i \in {j \in 1..Len(struct.fields) :
                                  struct.fields[j].exported}}

\* C17: a struct normalizes to an Object that holds exactly its exported
\* fields, each under the name its json tag gives when it has one and under
\* the Go field name otherwise, with the field's value normalized.
C17_StructFields ==
    (pc = "normalized" /\ input.t = "struct") =>
        /\ normalizedValue.t = "obj"
        /\ Len(normalizedValue.entries) = Cardinality(ExportedFields(input))
        /\ KeySet(normalizedValue) =
              {DeclaredName(f) : f \in ExportedFields(input)}
        /\ \A f \in ExportedFields(input) :
              /\ DeclaredName(f) \in KeySet(normalizedValue)
              /\ ValueAt(normalizedValue, DeclaredName(f)) = normalizeValue(f.v)

\* C18: for every key k of an object, the empty key and keys that need quotes
\* included, in ascending key order: a scalar value gives the one line
\* "key: scalar"; an array value gives an array rendering whose header line
\* begins with the key; an empty object gives the one line "key:"; a
\* non-empty object gives "key:" followed by the object's own lines one depth
\* deeper - the key written as encodeKey writes it.
C18_KeyValueEntry ==
    (pc = "done" /\ input.t = "obj" /\ input.entries # <<>>) =>
        LET lines == ResultLines
            ks == AscendingKeys(input)
        IN  /\ Len(LinesAtDepth(lines, 0)) = Len(ks)
            /\ \A i \in 1..Len(ks) :
                  LET v == ValueAt(input, ks[i])
                      block == Block(lines, 0, i)
                      own == IF v.t = "obj" THEN BodyLines(v, 0) ELSE <<>>
                  IN  CASE IsScalar(v) ->
                              block = <<KeyText(ks[i]) \o <<":", " ">>
                                        \o encodePrimitive(v, options.Delimiter)>>
                        [] v.t = "arr" ->
                              HasPrefix(block[1], KeyText(ks[i]) \o <<"[">>)
                        [] v.t = "obj" ->
                              block = <<KeyText(ks[i]) \o <<":">>>>
                                      \o [n \in 1..Len(own) |->
                                             IndentOf(1) \o own[n]]

---------------------------------------------------------------------------
(* Properties of the choice of an array's rendering (Spec).                *)

\* The keyless inline rendering of an array of scalars.
InlineText(items) ==
    PlainHeader(Len(items))
    \o (IF items = <<>> THEN <<>>
        ELSE <<" ">> \o Join([i \in 1..Len(items) |->
                                 encodePrimitive(items[i], options.Delimiter)],
                             options.Delimiter))

AllScalars(arr) == \A i \in 1..Len(arr) : IsScalar(arr[i])

AllArraysOfScalars(arr) ==
    \A i \in 1..Len(arr) : arr[i].t = "arr" /\ AllScalars(arr[i].items)

\* C19: each array is rendered by exactly one strategy, the first that
\* applies of: empty (the header alone), inline (all scalars: one line), list
\* of inline arrays (all elements arrays of scalars, empty ones included: the
\* header, then one "- " bullet per sub-array one depth deeper carrying its
\* keyless inline rendering), tabular (a header with a field list, then
\* rows), list of items (a header without a field list, then the lines of
\* the items, all of them one depth deeper or more, the first a bullet).
C19_OneStrategy ==
    (pc = "done" /\ TopArrayCase) =>
        LET lines == ResultLines
            n == Len(TopArray)
            plain == TopKey \o PlainHeader(n)
        IN  CASE n = 0 -> lines = <<plain>>
              [] n > 0 /\ AllScalars(TopArray) ->
                    lines = <<TopKey \o InlineText(TopArray)>>
              [] n > 0 /\ ~AllScalars(TopArray) /\ AllArraysOfScalars(TopArray) ->
                    /\ Len(lines) = 1 + n
                    /\ lines[1] = plain
                    /\ \A i \in 1..n :
                          lines[i + 1] = IndentOf(1) \o <<"-", " ">>
                                         \o InlineText(TopArray[i].items)
              [] UniformScalarObjects(TopArray) /\ KeySet(TopArray[1]) # {} ->
                    /\ IndexOf(lines[1], "{") > 0
                    /\ TabularForm
              [] OTHER ->
                    /\ lines[1] = plain
                    /\ \A i \in 2..Len(lines) :
                          Indentation(lines[i]) >= options.Indent
                    /\ Len(lines) > 1 =>
                          SubSeq(Content(lines[2]), 1, 1) = <<"-">>

\* An empty sub-array and a sub-array of two scalars under a key, with the
\* pipe delimiter.
C19_Witness ==
    /\ pc = "done"
    /\ input = Obj(<<[k |-> <<"a">>,
                      v |-> Arr(<<Arr(<<>>), Arr(<<Num(1), Str(<<"a">>)>>)>>)]>>)
    /\ options.Delimiter = DelimiterPipe /\ ~options.LengthMarker
    /\ ResultLines = << <<"a", "[", "2", "|", "]", ":">>,
                        <<" ", " ", "-", " ", "[", "0", "|", "]", ":">>,
                        <<" ", " ", "-", " ", "[", "2", "|", "]", ":", " ", "1",
                          "|", "a">> >>

---------------------------------------------------------------------------
(* Properties of a sequence of Encode calls (SpecSeq).                     *)

\* The settings of one kind in an option list, in argument order.
SettingsOf(optList, f) == SelectSeq(optList, LAMBDA o : o.f = f)

\* Each field is what its last setting in the list says, and the default
\* (indent 2, delimiter ",", no length marker) where the list has none.
LastSettings(optList) ==
    LET indents    == SettingsOf(optList, "WithIndent")
        delimiters == SettingsOf(optList, "WithDelimiter")
        markers    == SettingsOf(optList, "WithLengthMarker")
    IN  [Indent       |-> IF indents = <<>> THEN 2
                          ELSE indents[Len(indents)].n,
         Delimiter    |-> IF delimiters = <<>> THEN <<",">>
                          ELSE delimiters[Len(delimiters)].d,
         LengthMarker |-> markers # <<>>]

\* C20: whatever calls came before, a call's options are the last settings
\* of its own option list over the defaults, its result is the encoding of
\* its own value under these options, and it is the result that an earlier
\* call with the same value and the same option list returned.
C20_FreshOptionsPerCall ==
    pc = "done" =>
        /\ options = LastSettings(optArgs)
        /\ outcome = "nil"
        /\ result = encodeValue(normalizeValue(input), LastSettings(optArgs))
        /\ \A i \in 1..Len(history) :
              (history[i].input = input /\ history[i].optArgs = optArgs)
                  => (history[i].result = result
                      /\ history[i].outcome = outcome)

\* The third call, with no options, after a call with two delimiters (the
\* second won) and a call with indent 1 and the pipe.
C20_Witness ==
    /\ pc = "done"
    /\ Len(history) = 2
    /\ history[1].optArgs = <<WithDelimiter(DelimiterPipe),
                              WithDelimiter(DelimiterTab)>>
    /\ history[1].result = <<"a", "[", "2", "\t", "]", ":", " ", "1", "\t", "a">>
    /\ history[2].optArgs = <<WithIndent(1), WithDelimiter(DelimiterPipe)>>
    /\ history[2].result = <<"a", ":", "\n", " ", "B", ":", " ", "1">>
    /\ optArgs = <<>>
    /\ result = <<"a", "[", "2", "]", ":", " ", "1", ",", "a">>

---------------------------------------------------------------------------
(* Properties of the delimited fields of the output (SpecFields).          *)

\* For every character of the text, whether it is outside the double-quoted
\* segments; in a segment a backslash takes the next character with it.
RECURSIVE QuoteMask(_, _, _)
QuoteMask(text, inQuotes, escaped) ==
    IF text = <<>> THEN <<>>
    ELSE LET c == text[1]
         IN  IF ~inQuotes
             THEN <<c # "\"">> \o QuoteMask(Tail(text), c = "\"", FALSE)
             ELSE IF escaped
             THEN <<FALSE>> \o QuoteMask(Tail(text), TRUE, FALSE)
             ELSE <<FALSE>> \o QuoteMask(Tail(text), c # "\"", c = "\\")

\* The positions of the character c outside the quoted segments.
Unquoted(text, c) ==
    LET mask == QuoteMask(text, FALSE, FALSE)
    IN  {i \in 1..Len(text) : mask[i] /\ text[i] = c}

\* The number of fields that splitting at the delimiter outside the quoted
\* segments gives.
FieldCount(text, delimiter) == 1 + Cardinality(Unquoted(text, delimiter[1]))

Least(S) == CHOOSE i \in S : \A j \in S : i <= j

\* The line without its indentation and without the bullet.
Item(line) ==
    LET c == Content(line)
    IN  IF HasPrefix(c, <<"-", " ">>) THEN SubSeq(c, 3, Len(c)) ELSE c

\* A header read from a line: the first "[" outside quotes opens it, the
\* digits up to "]" are the length, a "{" right after "]" opens the field
\* list, and what follows ": " is the inline body.
IsHeader(item) == Unquoted(item, "[") # {}

HeaderLength(item) ==
    LET open  == Least(Unquoted(item, "["))
        close == Least(Unquoted(item, "]"))
    IN  NatOf(SelectSeq(SubSeq(item, open + 1, close - 1),
                        LAMBDA c : c \in {"0", "1", "2", "3", "4", "5", "6",
                                          "7", "8", "9"}))

HasFieldList(item) == Unquoted(item, "{") # {}

FieldList(item) ==
    SubSeq(item, Least(Unquoted(item, "{")) + 1,
           Least(Unquoted(item, "}")) - 1)

\* The position of the colon that ends the header.
HeaderEnd(item) ==
    IF HasFieldList(item) THEN Least(Unquoted(item, "}")) + 1
    ELSE Least(Unquoted(item, "]")) + 1

HasBody(item) == Len(item) > HeaderEnd(item)

Body(item) == SubSeq(item, HeaderEnd(item) + 2, Len(item))

\* The first inline array or table of a value, depth first.
RECURSIVE FirstArray(_)
FirstArray(v) ==
    IF v.t = "arr"
    THEN IF v.items # <<>>
            /\ (AllScalars(v.items)
                \/ (UniformScalarObjects(v.items) /\ KeySet(v.items[1]) # {}))
         THEN v.items
         ELSE LET found == SelectSeq([i \in 1..Len(v.items) |->
                                         FirstArray(v.items[i])],
                                     LAMBDA a : a # <<>>)
              IN  IF found = <<>> THEN <<>> ELSE found[1]
    ELSE IF v.t = "obj"
    THEN LET found == SelectSeq([i \in 1..Len(v.entries) |->
                                    FirstArray(v.entries[i].v)],
                                LAMBDA a : a # <<>>)
         IN  IF found = <<>> THEN <<>> ELSE found[1]
    ELSE <<>>

\* C21: under each of the three delimiters, every inline array body splits
\* outside quotes into as many fields as its header declares, every header
\* field list into as many fields as the objects have keys, and every row
\* under it into as many fields again; the array of the input appears in
\* the output as such a header.
C21_FieldCounts ==
    pc = "done" =>
        LET lines == ResultLines
            d     == options.Delimiter
            arr   == FirstArray(input)
            headers == {i \in 1..Len(lines) : IsHeader(Item(lines[i]))}
        IN  /\ \A i \in headers :
                  LET h == Item(lines[i])
                  IN  /\ HasBody(h) =>
                            /\ ~HasFieldList(h)
                            /\ FieldCount(Body(h), d) = HeaderLength(h)
                      /\ HasFieldList(h) =>
                            /\ arr[1].t = "obj"
                            /\ FieldCount(FieldList(h), d)
                                  = Cardinality(KeySet(arr[1]))
                            /\ HeaderLength(h) = Len(arr)
                            /\ Len(lines) >= i + HeaderLength(h)
                            /\ \A j \in 1..HeaderLength(h) :
                                  FieldCount(Content(lines[i + j]), d)
                                      = Cardinality(KeySet(arr[1]))
            /\ IsScalar(arr[1]) =>
                  \E i \in headers :
                      HasBody(Item(lines[i]))
                      /\ HeaderLength(Item(lines[i])) = Len(arr)
            /\ ~IsScalar(arr[1]) =>
                  \E i \in headers : HasFieldList(Item(lines[i]))

\* A table of two equal rows as the first field of a list item, under the
\* pipe: a key and a value with a pipe inside quotes.
C21_Witness ==
    /\ pc = "done"
    /\ options.Delimiter = DelimiterPipe
    /\ ResultLines = << <<"[", "1", "|", "]", ":">>,
                        <<" ", " ", "-", " ", "a", "[", "2", "|", "]", "{", "a",
                          "|", "\"", "|", "\"", "}", ":">>,
                        <<" ", " ", " ", " ", "\"", "a", "|", "b", "\"", "|",
                          "1", "2">>,
                        <<" ", " ", " ", " ", "\"", "a", "|", "b", "\"", "|",
                          "1", "2">> >>

---------------------------------------------------------------------------
(* Properties of encodePrimitive on pairs of scalars (SpecPrim).           *)

\* C22: under one delimiter, two scalars that differ in type or in value
\* have different texts.
C22_Injective ==
    (pc = "primitive" /\ history # <<>>) =>
        (history[1].input # input => history[1].result # result)

\* The boolean true, then the string "true".
C22_Witness ==
    /\ pc = "primitive"
    /\ history # <<>>
    /\ history[1].input = Bool(TRUE)
    /\ history[1].result = <<"t", "r", "u", "e">>
    /\ input = Str(<<"t", "r", "u", "e">>)
    /\ result = <<"\"", "t", "r", "u", "e", "\"">>

---------------------------------------------------------------------------
(* Properties of the pushed lines and the output text (SpecLines).         *)

\* The number of lines of a text: none for the empty text, else one more
\* than its line feeds.
LineCount(text) ==
    IF text = <<>> THEN 0
    ELSE 1 + Cardinality({i \in 1..Len(text) : text[i] = "\n"})

\* No pushed line is blank (so none was pushed with an empty text) or holds
\* a line feed, and the output has no line feed at either end.
CleanLines ==
    /\ \A i \in 1..Len(lineWriter.lines) :
          /\ Content(lineWriter.lines[i]) # <<>>
          /\ ~Contains(lineWriter.lines[i], <<"\n">>)
    /\ result # <<>> => (result[1] # "\n" /\ result[Len(result)] # "\n")

\* C23 as stated: for every value tree the output has as many lines as
\* there were Push calls.
C23_AsStated ==
    pc = "done" =>
        (CleanLines /\ LineCount(result) = Len(lineWriter.lines))

\* C23: no pushed line is empty or holds a line feed and the output neither
\* begins nor ends with one; an array or an object gives exactly the pushed
\* lines, one output line per Push (none for the object without keys); a
\* scalar gives one line without any Push.
C23_LinesArePushes ==
    pc = "done" =>
        /\ CleanLines
        /\ IF IsScalar(input)
           THEN lineWriter.lines = <<>> /\ LineCount(result) = 1
           ELSE /\ LineCount(result) = Len(lineWriter.lines)
                /\ result # <<>> => ResultLines = lineWriter.lines

\* Three pushes, three lines: a key and a string with line feeds.
C23_Witness ==
    /\ pc = "done"
    /\ input = Obj(<<[k |-> <<"a", "\n">>,
                      v |-> Arr(<<Str(<<"\n">>), Obj(<<>>)>>)]>>)
    /\ Len(lineWriter.lines) = 3
    /\ result = <<"\"", "a", "\\", "n", "\"", "[", "2", "]", ":", "\n",
                  " ", " ", "-", " ", "\"", "\\", "n", "\"", "\n",
                  " ", " ", "-">>

====
